---- MODULE Spec2Model ----
(***************************************************************************)
(* Availability engine of the booking backend                              *)
(* (backend/src/handlers/availability.ts): an availability request         *)
(* running calculateAvailableSlots over the tables it reads, and a second  *)
(* request the event loop may switch to at each await.                     *)
(*                                                                         *)
(* Encodings.  A time string is the tuple of its ':'-separated numbers:    *)
(* "09:30" is <<9, 30>>, a TIME column value "09:30:00" is <<9, 30, 0>>.   *)
(* SQL NULL / JS undefined in an id or number column is 0 (ids are serial, *)
(* starting at 1); in a TIME column it is <<>>.  The optional number       *)
(* staffMemberId of a request is its value (0 when undefined) together     *)
(* with the flag staffMemberIdGiven, TRUE when the query string had the    *)
(* parameter: ?staffMemberId=0 is the value 0, given.  A calendar date is  *)
(* its day number; instants are minutes since day 0, 00:00 UTC (the        *)
(* process is taken to run in UTC).                                        *)
(***************************************************************************)
EXTENDS Integers, Sequences, FiniteSets

VARIABLES
    businesses, services, staff_members, staff_services,
    availability_rules, special_availability, bookings,   \* the tables
    now,            \* the instant new Date() returns
    params,         \* AvailabilityParams of the request
    pc,             \* the await the request is suspended at
    business, service, staffRows, staffIdx, hoursRows, allSlots,  \* locals
    reads,          \* the queries issued so far, in order
    failedAt,       \* index in reads of the query that rejected, 0 if none
    result,         \* what calculateAvailableSlots returned or threw
    responses,      \* the responses handleGetAvailability has sent
    other,          \* the second request: its params, position and locals
    interleaved,    \* TRUE once a request was suspended in mid-flight
    dbChange,       \* what was done to the bookings between two calls
    probe,          \* a helper function's arguments and its return value
    http,           \* an HTTP request on its way through the two listeners
    conn            \* the calls of query() and transaction() in progress

dbvars == <<businesses, services, staff_members, staff_services,
            availability_rules, special_availability, bookings, now, params>>
locals == <<business, service, staffRows, staffIdx, hoursRows, allSlots>>
outside == <<other, interleaved, dbChange, probe, http, conn>>
vars == <<dbvars, pc, locals, reads, failedAt, result, responses, outside>>

----------------------------------------------------------------------------
\* Bounds of the model.

MaxBookings == 2
MaxAdvanceDays == 1

\* Program constants.

IntervalMinutes == 15
MINIMUM_CONFLICT_MINUTES == 10

----------------------------------------------------------------------------
\* Time arithmetic.

Max(a, b) == IF a > b THEN a ELSE b
Min(a, b) == IF a < b THEN a ELSE b

\* JS a % b for b > 0: the remainder takes the sign of the dividend.
JsRem(a, b) == IF a >= 0 THEN a % b ELSE 0 - ((0 - a) % b)

\* Math.floor(a / b) for b > 0.
JsFloorDiv(a, b) == a \div b

timeToMinutes(timeString) == timeString[1] * 60 + timeString[2]

minutesToTime(totalMinutes) ==
    <<JsFloorDiv(totalMinutes, 60), JsRem(totalMinutes, 60)>>

addMinutes(timeString, minutes) ==
    minutesToTime(timeToMinutes(timeString) + minutes)

subtractMinutes(timeString, minutes) ==
    minutesToTime(Max(0, timeToMinutes(timeString) - minutes))

\* Faulty variant: intervals that only touch count as overlapping.
timesOverlapTouching(start1, end1, start2, end2) ==
    LET s1 == timeToMinutes(start1)
        e1 == timeToMinutes(end1)
        s2 == timeToMinutes(start2)
        e2 == timeToMinutes(end2)
    IN  s1 <= e2 /\ s2 <= e1

\* Faulty variant: only a second interval that starts inside the first overlaps.
timesOverlapOneSided(start1, end1, start2, end2) ==
    LET s1 == timeToMinutes(start1)
        e1 == timeToMinutes(end1)
        s2 == timeToMinutes(start2)
    IN  s1 <= s2 /\ s2 < e1

timesOverlapExact(start1, end1, start2, end2) ==
    LET s1 == timeToMinutes(start1)
        e1 == timeToMinutes(end1)
        s2 == timeToMinutes(start2)
        e2 == timeToMinutes(end2)
    IN  s1 < e2 /\ s2 < e1

\* Faulty variant: an overlap of exactly the threshold is not a conflict.
timesOverlapAboveThreshold(start1, end1, start2, end2) ==
    LET overlapStart == Max(timeToMinutes(start1), timeToMinutes(start2))
        overlapEnd == Min(timeToMinutes(end1), timeToMinutes(end2))
    IN  Max(0, overlapEnd - overlapStart) > MINIMUM_CONFLICT_MINUTES

timesOverlap(start1, end1, start2, end2) ==
    LET s1Minutes == timeToMinutes(start1)
        e1Minutes == timeToMinutes(end1)
        s2Minutes == timeToMinutes(start2)
        e2Minutes == timeToMinutes(end2)
        overlapStart == Max(s1Minutes, s2Minutes)
        overlapEnd == Min(e1Minutes, e2Minutes)
        overlapDuration == Max(0, overlapEnd - overlapStart)
    IN  overlapDuration >= MINIMUM_CONFLICT_MINUTES

\* new Date("YYYY-MM-DD"): midnight UTC of that day.
DateValue(date) == date * 24 * 60

\* new Date(dateString).getDay(); day 0 is taken to be a Sunday.
getDayOfWeek(date) == date % 7

----------------------------------------------------------------------------
\* Slot generation.

TimeSlot(start, end) ==
    [start |-> start, end |-> end, staffMemberId |-> 0, available |-> TRUE]

RECURSIVE FixedSlotsFrom(_, _, _)
FixedSlotsFrom(currentMinutes, endMinutes, intervalMinutes) ==
    IF currentMinutes < endMinutes
    THEN <<TimeSlot(minutesToTime(currentMinutes),
                    minutesToTime(currentMinutes + intervalMinutes))>>
         \o FixedSlotsFrom(currentMinutes + intervalMinutes, endMinutes,
                           intervalMinutes)
    ELSE <<>>

\* Faulty variant: the last slot is clipped to the end of the window.
RECURSIVE ClippedSlotsFrom(_, _, _)
ClippedSlotsFrom(currentMinutes, endMinutes, intervalMinutes) ==
    IF currentMinutes < endMinutes
    THEN <<TimeSlot(minutesToTime(currentMinutes),
                    minutesToTime(Min(currentMinutes + intervalMinutes,
                                      endMinutes)))>>
         \o ClippedSlotsFrom(currentMinutes + intervalMinutes, endMinutes,
                             intervalMinutes)
    ELSE <<>>

generateFixedTimeSlotsClipped(startTime, endTime, intervalMinutes) ==
    ClippedSlotsFrom(timeToMinutes(startTime), timeToMinutes(endTime),
                     intervalMinutes)

generateFixedTimeSlots(startTime, endTime, intervalMinutes) ==
    FixedSlotsFrom(timeToMinutes(startTime), timeToMinutes(endTime),
                   intervalMinutes)

RECURSIVE SlotsFrom(_, _, _, _)
SlotsFrom(currentMinutes, endMinutes, durationMinutes, intervalMinutes) ==
    IF currentMinutes + durationMinutes <= endMinutes
    THEN <<TimeSlot(minutesToTime(currentMinutes),
                    minutesToTime(currentMinutes + durationMinutes))>>
         \o SlotsFrom(currentMinutes + intervalMinutes, endMinutes,
                      durationMinutes, intervalMinutes)
    ELSE <<>>

\* Faulty variant: a slot ending exactly at the end of the window is left out.
RECURSIVE SlotsFromStrict(_, _, _, _)
SlotsFromStrict(currentMinutes, endMinutes, durationMinutes, intervalMinutes) ==
    IF currentMinutes + durationMinutes < endMinutes
    THEN <<TimeSlot(minutesToTime(currentMinutes),
                    minutesToTime(currentMinutes + durationMinutes))>>
         \o SlotsFromStrict(currentMinutes + intervalMinutes, endMinutes,
                            durationMinutes, intervalMinutes)
    ELSE <<>>

generateTimeSlotsStrict(startTime, endTime, durationMinutes, intervalMinutes) ==
    SlotsFromStrict(timeToMinutes(startTime), timeToMinutes(endTime),
                    durationMinutes, intervalMinutes)

generateTimeSlots(startTime, endTime, durationMinutes, intervalMinutes) ==
    SlotsFrom(timeToMinutes(startTime), timeToMinutes(endTime),
              durationMinutes, intervalMinutes)

----------------------------------------------------------------------------
\* The queries: each is its SQL text applied to the tables.

MapSeq(s, F(_)) == [i \in DOMAIN s |-> F(s[i])]

Project(row, columns) == [c \in columns |-> row[c]]

\* row.column of a query-result row; undefined when the column was not selected.
Prop(row, column) == IF column \in DOMAIN row THEN row[column] ELSE 0

\* column = $n in a WHERE clause; node-pg sends undefined as NULL, and a
\* comparison with NULL is never true.
SqlEq(column, param) == column # 0 /\ param # 0 /\ column = param

\* rows[0]?.column || fallback, for a TIME column.
FirstOr(rows, column, fallback) ==
    IF Len(rows) > 0 /\ rows[1][column] # <<>> THEN rows[1][column]
    ELSE fallback

BusinessQuery(businessId) ==
    LET where(b) == SqlEq(b.id, businessId)
        row(b) == Project(b, {"type", "booking_advance_days", "is_active"})
    IN  MapSeq(SelectSeq(businesses, where), row)

ServiceQuery(serviceId, businessId) ==
    LET where(s) == SqlEq(s.id, serviceId) /\ SqlEq(s.business_id, businessId)
        row(s) == Project(s, {"duration_minutes", "capacity", "requires_staff",
                              "buffer_after_minutes", "is_active"})
    IN  MapSeq(SelectSeq(services, where), row)

BusinessHoursQuery(businessId, dayOfWeek) ==
    LET where(r) == /\ SqlEq(r.business_id, businessId)
                    /\ r.staff_member_id = 0
                    /\ r.day_of_week = dayOfWeek
                    /\ r.is_active
        row(r) == Project(r, {"start_time", "end_time"})
    IN  MapSeq(SelectSeq(availability_rules, where), row)

BusinessSpecialQuery(businessId, date) ==
    LET where(o) == /\ SqlEq(o.business_id, businessId)
                    /\ o.staff_member_id = 0
                    /\ o.date = date
        row(o) == Project(o, {"is_available", "start_time", "end_time"})
    IN  MapSeq(SelectSeq(special_availability, where), row)

\* Faulty variant: inactive staff members are selected too.
StaffQueryInactiveToo(businessId, serviceId, requestedStaffId) ==
    {staff_members[i].id : i \in
        {j \in DOMAIN staff_members :
            LET sm == staff_members[j]
            IN  /\ SqlEq(sm.business_id, businessId)
                /\ \E ss \in staff_services :
                      /\ ss.staff_member_id = sm.id
                      /\ SqlEq(ss.service_id, serviceId)
                /\ (requestedStaffId # 0 => sm.id = requestedStaffId)}}

\* SELECT DISTINCT sm.id ...: the set of ids; the order of the rows is the
\* database's choice (no ORDER BY).
StaffQuery(businessId, serviceId, requestedStaffId) ==
    {staff_members[i].id : i \in
        {j \in DOMAIN staff_members :
            LET sm == staff_members[j]
            IN  /\ SqlEq(sm.business_id, businessId)
                /\ sm.is_active
                /\ \E ss \in staff_services :
                      /\ ss.staff_member_id = sm.id
                      /\ SqlEq(ss.service_id, serviceId)
                /\ (requestedStaffId # 0 => sm.id = requestedStaffId)}}

StaffHoursQuery(staffId, dayOfWeek) ==
    LET where(r) == /\ SqlEq(r.staff_member_id, staffId)
                    /\ r.day_of_week = dayOfWeek
                    /\ r.is_active
        row(r) == Project(r, {"start_time", "end_time"})
    IN  MapSeq(SelectSeq(availability_rules, where), row)

StaffSpecialQuery(staffId, date) ==
    LET where(o) == SqlEq(o.staff_member_id, staffId) /\ o.date = date
        row(o) == Project(o, {"is_available", "start_time", "end_time"})
    IN  MapSeq(SelectSeq(special_availability, where), row)

RestaurantBookingsQuery(businessId, serviceId, date) ==
    LET where(b) == /\ SqlEq(b.business_id, businessId)
                    /\ SqlEq(b.service_id, serviceId)
                    /\ b.booking_date = date
                    /\ b.status \in {"confirmed", "pending"}
        row(b) == Project(b, {"start_time", "end_time", "party_size"})
    IN  MapSeq(SelectSeq(bookings, where), row)

ServiceOf(serviceId) ==
    services[CHOOSE i \in DOMAIN services : services[i].id = serviceId]

\* Faulty variant: bookings of every status are read.
StaffBookingsQueryAnyStatus(businessId, date) ==
    LET where(b) == /\ SqlEq(b.business_id, businessId)
                    /\ b.booking_date = date
                    /\ \E i \in DOMAIN services : services[i].id = b.service_id
        row(b) == [staff_member_id |-> b.staff_member_id,
                   start_time |-> b.start_time,
                   end_time |-> b.end_time,
                   duration_minutes |-> ServiceOf(b.service_id).duration_minutes,
                   buffer_after_minutes |->
                       ServiceOf(b.service_id).buffer_after_minutes]
    IN  MapSeq(SelectSeq(bookings, where), row)

StaffBookingsQuery(businessId, date) ==
    LET where(b) == /\ SqlEq(b.business_id, businessId)
                    /\ b.booking_date = date
                    /\ b.status \in {"confirmed", "pending"}
                    /\ \E i \in DOMAIN services : services[i].id = b.service_id
        row(b) == [staff_member_id |-> b.staff_member_id,
                   start_time |-> b.start_time,
                   end_time |-> b.end_time,
                   duration_minutes |-> ServiceOf(b.service_id).duration_minutes,
                   buffer_after_minutes |->
                       ServiceOf(b.service_id).buffer_after_minutes]
    IN  MapSeq(SelectSeq(bookings, where), row)

----------------------------------------------------------------------------
\* Conflict filters.

RECURSIVE UsedCapacity(_, _)
UsedCapacity(slot, existingBookings) ==
    IF existingBookings = <<>> THEN 0
    ELSE LET booking == Head(existingBookings)
         IN  (IF timesOverlap(slot.start, slot.end,
                              booking.start_time, booking.end_time)
              THEN booking.party_size ELSE 0)
             + UsedCapacity(slot, Tail(existingBookings))

\* Faulty variant: the restaurant slots go through the superseded staff filter
\* (filterByStaffBookings), which drops every slot without a staffMemberId.
filterDroppingSlots(slots, businessId, serviceId, date, maxCapacity) ==
    LET keep(slot) == slot.staffMemberId # 0
    IN  SelectSeq(slots, keep)

filterByRestaurantCapacity(slots, businessId, serviceId, date, maxCapacity) ==
    LET existingBookings == RestaurantBookingsQuery(businessId, serviceId, date)
        tag(slot) ==
            [slot EXCEPT !.available =
                UsedCapacity(slot, existingBookings) < maxCapacity]
    IN  MapSeq(slots, tag)

\* Faulty variant: an existing booking blocks only until its end, without the
\* after-buffer of its service.
filterIgnoringBookingBuffer(slots, businessId, serviceId, date, svc) ==
    LET existingBookings == StaffBookingsQuery(businessId, date)
        keep(slot) ==
            /\ slot.staffMemberId # 0
            /\ LET serviceEndTime ==
                       minutesToTime(timeToMinutes(slot.start)
                                     + svc.duration_minutes
                                     + svc.buffer_after_minutes)
               IN  \A i \in DOMAIN existingBookings :
                      LET booking == existingBookings[i]
                      IN  booking.staff_member_id = slot.staffMemberId
                          => ~timesOverlapExact(slot.start, serviceEndTime,
                                                booking.start_time,
                                                booking.end_time)
    IN  SelectSeq(slots, keep)

filterByServiceDurationAndBuffer(slots, businessId, serviceId, date, svc) ==
    LET existingBookings == StaffBookingsQuery(businessId, date)
        keep(slot) ==
            /\ slot.staffMemberId # 0
            /\ LET slotStartMinutes == timeToMinutes(slot.start)
                   serviceEndMinutes == slotStartMinutes + svc.duration_minutes
                                        + svc.buffer_after_minutes
                   serviceEndTime == minutesToTime(serviceEndMinutes)
               IN  \A i \in DOMAIN existingBookings :
                      LET booking == existingBookings[i]
                          bookingStart == booking.start_time
                          bookingEndMinutes ==
                              timeToMinutes(booking.end_time)
                              + booking.buffer_after_minutes
                          bookingEnd == minutesToTime(bookingEndMinutes)
                      IN  booking.staff_member_id = slot.staffMemberId
                          => ~timesOverlapExact(slot.start, serviceEndTime,
                                                bookingStart, bookingEnd)
    IN  SelectSeq(slots, keep)

----------------------------------------------------------------------------
\* calculateAvailableSlots and the handler around it.

\* Faulty variant: the is_active flag of the business is not looked at.
BusinessRejectedIfAbsent(businessResult) == Len(businessResult) = 0

BusinessRejected(businessResult) ==
    Len(businessResult) = 0 \/ ~businessResult[1].is_active

ServiceRejected(serviceResult) ==
    Len(serviceResult) = 0 \/ ~serviceResult[1].is_active

\* requestDate > maxBookingDate, maxBookingDate being now moved
\* booking_advance_days days ahead.
\* Faulty variant: a date exactly at the horizon is cut off as well.
TooFarInFutureInclusive(date, biz) ==
    DateValue(date) >= now + biz.booking_advance_days * 24 * 60

TooFarInFuture(date, biz) ==
    DateValue(date) > now + biz.booking_advance_days * 24 * 60

RECURSIVE RestaurantSlots(_, _, _)
RestaurantSlots(hoursResult, specialResult, svc) ==
    IF hoursResult = <<>> THEN <<>>
    ELSE LET hours == Head(hoursResult)
             startTime == FirstOr(specialResult, "start_time", hours.start_time)
             endTime == FirstOr(specialResult, "end_time", hours.end_time)
         IN  generateTimeSlots(startTime, endTime, svc.duration_minutes,
                               IntervalMinutes)
             \o RestaurantSlots(Tail(hoursResult), specialResult, svc)

RECURSIVE StaffSlots(_, _, _)
StaffSlots(staffId, staffHoursResult, staffSpecialResult) ==
    IF staffHoursResult = <<>> THEN <<>>
    ELSE LET hours == Head(staffHoursResult)
             startTime == FirstOr(staffSpecialResult, "start_time",
                                  hours.start_time)
             endTime == FirstOr(staffSpecialResult, "end_time", hours.end_time)
             withId(slot) == [slot EXCEPT !.staffMemberId = staffId]
         IN  MapSeq(generateFixedTimeSlots(startTime, endTime, IntervalMinutes),
                    withId)
             \o StaffSlots(staffId, Tail(staffHoursResult), staffSpecialResult)

ClosedBySpecial(specialResult) ==
    Len(specialResult) > 0 /\ ~specialResult[1].is_available

\* The orders in which a query without ORDER BY may return a set of rows.
RowOrders(S) ==
    {o \in [1..Cardinality(S) -> S] :
        \A i, j \in DOMAIN o : i # j => o[i] # o[j]}

\* calculateAvailableSlots returns; the handler answers 200 {date, slots}.
Return(slots) ==
    /\ result' = [kind |-> "slots", slots |-> slots, error |-> ""]
    /\ responses' = Append(responses,
           [status |-> 200, date |-> params.date, slots |-> slots,
            error |-> ""])
    /\ pc' = "done"

\* calculateAvailableSlots throws an Error; the handler's catch answers
\* 400 {error: message}.
Throw(message) ==
    /\ result' = [kind |-> "error", slots |-> <<>>, error |-> message]
    /\ responses' = Append(responses,
           [status |-> 400, date |-> 0, slots |-> <<>>, error |-> message])
    /\ pc' = "done"

\* Faulty variant: a rejected query is swallowed and the slots computed so far are
\* returned.
QueryRejectsPartial ==
    /\ failedAt' = Len(reads) + 1
    /\ Return(allSlots)
    /\ UNCHANGED locals

\* The awaited query rejects (pool.connect or client.query fails).
QueryRejects ==
    /\ failedAt' = Len(reads) + 1
    /\ Throw("query failed")
    /\ UNCHANGED locals

Issue(name) == reads' = Append(reads, name)

ReadBusiness ==
    /\ pc = "business"
    /\ Issue("business")
    /\ UNCHANGED <<dbvars, outside>>
    /\ \/ QueryRejects
       \/ /\ UNCHANGED failedAt
          /\ LET businessResult == BusinessQuery(params.businessId)
             IN  IF BusinessRejected(businessResult)
                 THEN Throw("Business not found or inactive")
                      /\ UNCHANGED locals
                 ELSE /\ business' = businessResult[1]
                      /\ pc' = "service"
                      /\ UNCHANGED <<service, staffRows, staffIdx, hoursRows,
                                     allSlots, result, responses>>

ReadService ==
    /\ pc = "service"
    /\ Issue("service")
    /\ UNCHANGED <<dbvars, outside>>
    /\ \/ QueryRejects
       \/ /\ UNCHANGED failedAt
          /\ LET serviceResult == ServiceQuery(params.serviceId,
                                               params.businessId)
             IN  IF ServiceRejected(serviceResult)
                 THEN Throw("Service not found or inactive")
                      /\ UNCHANGED locals
                 ELSE /\ service' = serviceResult[1]
                      /\ UNCHANGED <<business, staffRows, staffIdx, hoursRows,
                                     allSlots>>
                      /\ IF TooFarInFuture(params.date, business)
                         THEN Return(<<>>)
                         ELSE /\ pc' = IF business.type = "restaurant"
                                       THEN "business_hours" ELSE "staff"
                              /\ UNCHANGED <<result, responses>>

\* getRestaurantSlots
ReadBusinessHours ==
    /\ pc = "business_hours"
    /\ Issue("business_hours")
    /\ UNCHANGED <<dbvars, outside>>
    /\ \/ QueryRejects
       \/ /\ UNCHANGED failedAt
          /\ LET hoursResult == BusinessHoursQuery(params.businessId,
                                    getDayOfWeek(params.date))
             IN  IF Len(hoursResult) = 0
                 THEN Return(<<>>) /\ UNCHANGED locals
                 ELSE /\ hoursRows' = hoursResult
                      /\ pc' = "business_special"
                      /\ UNCHANGED <<business, service, staffRows, staffIdx,
                                     allSlots, result, responses>>

ReadBusinessSpecial ==
    /\ pc = "business_special"
    /\ Issue("business_special")
    /\ UNCHANGED <<dbvars, outside>>
    /\ \/ QueryRejects
       \/ /\ UNCHANGED failedAt
          /\ LET specialResult == BusinessSpecialQuery(params.businessId,
                                                       params.date)
             IN  IF ClosedBySpecial(specialResult)
                 THEN Return(<<>>) /\ UNCHANGED locals
                 ELSE /\ allSlots' = RestaurantSlots(hoursRows, specialResult,
                                                     service)
                      /\ pc' = "restaurant_bookings"
                      /\ UNCHANGED <<business, service, staffRows, staffIdx,
                                     hoursRows, result, responses>>

ReadRestaurantBookings ==
    /\ pc = "restaurant_bookings"
    /\ Issue("restaurant_bookings")
    /\ UNCHANGED <<dbvars, outside>>
    /\ \/ QueryRejects
       \/ /\ UNCHANGED <<failedAt, locals>>
          \* service is the row selected in ReadService, which has no id
          \* column: service.id is undefined.
          /\ Return(filterByRestaurantCapacity(allSlots, params.businessId,
                        Prop(service, "id"), params.date, service.capacity))

\* getStaffBasedSlots
NextStaff(idx) ==
    IF idx < Len(staffRows)
    THEN staffIdx' = idx + 1 /\ pc' = "staff_hours"
    ELSE staffIdx' = idx /\ pc' = "staff_bookings"

ReadStaff ==
    /\ pc = "staff"
    /\ Issue("staff")
    /\ UNCHANGED <<dbvars, outside>>
    /\ \/ QueryRejects
       \/ /\ UNCHANGED failedAt
          /\ LET staffResult == StaffQuery(params.businessId, params.serviceId,
                                           params.staffMemberId)
             IN  IF staffResult = {}
                 THEN Return(<<>>) /\ UNCHANGED locals
                 ELSE /\ \E rows \in RowOrders(staffResult) : staffRows' = rows
                      /\ staffIdx' = 1
                      /\ pc' = "staff_hours"
                      /\ UNCHANGED <<business, service, hoursRows, allSlots,
                                     result, responses>>

\* Faulty variant: a staff member without working hours ends the request with an
\* empty list.
ReadStaffHoursReturning ==
    /\ pc = "staff_hours"
    /\ Issue("staff_hours")
    /\ UNCHANGED <<dbvars, outside>>
    /\ \/ QueryRejects
       \/ /\ UNCHANGED failedAt
          /\ LET staffHoursResult == StaffHoursQuery(staffRows[staffIdx],
                                         getDayOfWeek(params.date))
             IN  /\ hoursRows' = staffHoursResult
                 /\ IF Len(staffHoursResult) = 0
                    THEN /\ Return(<<>>)
                         /\ UNCHANGED staffIdx
                    ELSE /\ staffIdx' = staffIdx
                         /\ pc' = "staff_special"
                         /\ UNCHANGED <<result, responses>>
                 /\ UNCHANGED <<business, service, staffRows, allSlots>>

ReadStaffHours ==
    /\ pc = "staff_hours"
    /\ Issue("staff_hours")
    /\ UNCHANGED <<dbvars, outside>>
    /\ \/ QueryRejects
       \/ /\ UNCHANGED failedAt
          /\ LET staffHoursResult == StaffHoursQuery(staffRows[staffIdx],
                                         getDayOfWeek(params.date))
             IN  /\ hoursRows' = staffHoursResult
                 /\ IF Len(staffHoursResult) = 0
                    THEN NextStaff(staffIdx)
                    ELSE staffIdx' = staffIdx /\ pc' = "staff_special"
                 /\ UNCHANGED <<business, service, staffRows, allSlots,
                                result, responses>>

ReadStaffSpecial ==
    /\ pc = "staff_special"
    /\ Issue("staff_special")
    /\ UNCHANGED <<dbvars, outside>>
    /\ \/ QueryRejects
       \/ /\ UNCHANGED failedAt
          /\ LET staffSpecialResult == StaffSpecialQuery(staffRows[staffIdx],
                                                         params.date)
             IN  /\ allSlots' =
                        IF ClosedBySpecial(staffSpecialResult) THEN allSlots
                        ELSE allSlots \o StaffSlots(staffRows[staffIdx],
                                             hoursRows, staffSpecialResult)
                 /\ NextStaff(staffIdx)
                 /\ UNCHANGED <<business, service, staffRows, hoursRows,
                                result, responses>>

ReadStaffBookings ==
    /\ pc = "staff_bookings"
    /\ Issue("staff_bookings")
    /\ UNCHANGED <<dbvars, outside>>
    /\ \/ QueryRejects
       \/ /\ UNCHANGED <<failedAt, locals>>
          /\ Return(filterByServiceDurationAndBuffer(allSlots,
                        params.businessId, params.serviceId, params.date,
                        service))

----------------------------------------------------------------------------
\* The initial states: the tables, the clock and a request whose parameters
\* passed the handler's validation, drawn from bounded families of
\* configurations.  Business 1 and service 1 are the ones requested; every
\* table also holds rows the WHERE clauses must skip (another business,
\* another day of the week, inactive rules, another date).  A booking with a
\* staff member belongs to that staff member's business, as
\* handleCreateBooking checks before it inserts.

Time(h, m) == <<h, m, 0>>

Window(h1, m1, h2, m2) ==
    [start_time |-> Time(h1, m1), end_time |-> Time(h2, m2)]

WindowA == Window(9, 0, 10, 0)
WindowB == Window(9, 10, 10, 20)
WindowC == Window(9, 30, 10, 30)
WindowDay == Window(9, 0, 17, 0)

BookingStarts == {<<9, 30>>, <<10, 0>>}
OtherService == [id |-> 2, business_id |-> 1, duration_minutes |-> 20,
                 capacity |-> 4, requires_staff |-> TRUE,
                 buffer_before_minutes |-> 5, buffer_after_minutes |-> 10,
                 is_active |-> TRUE]

BookingParams(staff, start, svc, party, status, dayOffset) ==
    [staff |-> staff, start |-> start, svc |-> svc, party |-> party,
     status |-> status, dayOffset |-> dayOffset]

StaffBookingUniverse ==
    {BookingParams(st, s, v, 1, "confirmed", 0) :
        st \in {1, 2}, s \in BookingStarts, v \in {1, 2}}
    \cup {BookingParams(1, <<9, 30>>, 1, 1, "cancelled", 0),
          BookingParams(1, <<9, 30>>, 1, 1, "pending", 0),
          BookingParams(1, <<9, 30>>, 1, 1, "confirmed", 1)}

RestaurantBookingUniverse ==
    {BookingParams(0, s, 1, p, status, 0) :
        s \in BookingStarts, p \in {1, 2}, status \in {"confirmed", "cancelled"}}
    \cup {BookingParams(0, <<9, 30>>, 2, 2, "confirmed", 0),
          BookingParams(0, <<9, 30>>, 1, 2, "pending", 0),
          BookingParams(0, <<9, 30>>, 1, 2, "confirmed", 1)}

RECURSIVE SubsetsUpTo(_, _)
SubsetsUpTo(U, k) ==
    IF k = 0 THEN {{}}
    ELSE LET smaller == SubsetsUpTo(U, k - 1)
         IN  smaller \cup {s \cup {x} : s \in smaller, x \in U}

RECURSIVE SetToSeq(_)
SetToSeq(S) ==
    IF S = {} THEN <<>>
    ELSE LET x == CHOOSE y \in S : TRUE
         IN  <<x>> \o SetToSeq(S \ {x})

DefaultConfig ==
    [bstate |-> "active", type |-> "salon", adv |-> MaxAdvanceDays,
     sstate |-> "active", dur |-> 30, cap |-> 2, bb |-> 0, ba |-> 10,
     bizHours |-> <<WindowA>>, bizSpecial |-> "absent",
     staff2 |-> "eligible", filter |-> 0,
     hours1 |-> <<WindowA>>, hours2 |-> <<WindowA>>, special1 |-> "absent",
     bookingSet |-> {}, nowMin |-> 600, dateOffset |-> 0,
     zeroFilter |-> FALSE]

\* Business and service validation and the booking horizon.
ValidationConfigs ==
    {[DefaultConfig EXCEPT !.bstate = b, !.type = t, !.adv = a, !.sstate = s,
                           !.nowMin = n, !.dateOffset = d] :
        b \in {"absent", "inactive", "active"}, t \in {"restaurant", "salon"},
        a \in 0..MaxAdvanceDays,
        s \in {"absent", "inactive", "foreign", "active"},
        n \in {0, 600}, d \in 0..(MaxAdvanceDays + 1)}

\* Capacity path: service and bookings vary.
CapacityConfigs ==
    {[DefaultConfig EXCEPT !.type = "restaurant", !.dur = d, !.cap = c,
                           !.bizHours = h, !.bookingSet = bs] :
        d \in {20, 30}, c \in {1, 2}, h \in {<<WindowA>>, <<WindowB>>},
        bs \in SubsetsUpTo(RestaurantBookingUniverse, MaxBookings)}

\* Capacity path: working hours and overrides vary.
CapacityWindowConfigs ==
    {[DefaultConfig EXCEPT !.type = "restaurant", !.dur = d, !.bizHours = h,
                           !.bizSpecial = o, !.bookingSet = bs] :
        d \in {20, 30},
        h \in {<<>>, <<WindowA>>, <<WindowB>>, <<WindowA, WindowB>>},
        o \in {"absent", "closed", "replace", "open"},
        bs \in SubsetsUpTo({BookingParams(0, <<9, 30>>, 1, 2, "confirmed", 0)},
                           1)}

ServiceShapes ==
    {<<30, 0, 10>>, <<20, 0, 0>>, <<20, 15, 0>>, <<30, 15, 10>>}

\* Staff path: service and bookings vary.
StaffConfigs ==
    {[DefaultConfig EXCEPT !.dur = sh[1], !.bb = sh[2], !.ba = sh[3],
                           !.hours1 = h, !.bookingSet = bs] :
        sh \in ServiceShapes, h \in {<<WindowA>>, <<WindowB>>},
        bs \in SubsetsUpTo(StaffBookingUniverse, MaxBookings)}

\* Staff path: eligibility, working hours and overrides vary.
StaffWindowConfigs ==
    {[DefaultConfig EXCEPT !.staff2 = s2, !.filter = f, !.hours1 = hs[1],
                           !.hours2 = hs[2], !.special1 = o,
                           !.bookingSet = bs] :
        s2 \in {"eligible", "inactive", "unmapped"}, f \in {0, 2},
        hs \in {<<<<WindowA>>, <<WindowA>>>>, <<<<WindowB>>, <<WindowA>>>>,
                <<<<WindowA, WindowB>>, <<>>>>, <<<<>>, <<WindowA>>>>},
        o \in {"absent", "closed", "replace", "open"},
        bs \in SubsetsUpTo({BookingParams(1, <<9, 30>>, 2, 1, "confirmed", 0),
                            BookingParams(2, <<9, 30>>, 1, 1, "confirmed", 0)},
                           1)}

\* Scenarios A and B of the specification's testable properties.
ScenarioA ==
    [DefaultConfig EXCEPT !.type = "restaurant", !.bizHours = <<WindowDay>>]

ScenarioB ==
    [DefaultConfig EXCEPT !.hours1 = <<WindowDay>>, !.staff2 = "inactive",
         !.bookingSet = {BookingParams(1, <<10, 0>>, 1, 1, "confirmed", 0)}]

\* Staff path: the request carries staffMemberId=0, or the id of a staff
\* member of another business.
ZeroFilterConfigs ==
    {[DefaultConfig EXCEPT !.staff2 = s2, !.hours1 = h, !.zeroFilter = TRUE] :
        s2 \in {"eligible", "inactive"}, h \in {<<WindowA>>, <<>>}}
    \cup {[DefaultConfig EXCEPT !.filter = 3]}

Configurations ==
    ValidationConfigs \cup CapacityConfigs \cup CapacityWindowConfigs
    \cup StaffConfigs \cup StaffWindowConfigs \cup {ScenarioA, ScenarioB}
    \cup ZeroFilterConfigs

FirstDay == 10

RequestDate(c) == FirstDay + c.dateOffset

BusinessTable(c) ==
    (IF c.bstate = "absent" THEN <<>>
     ELSE <<[id |-> 1, type |-> c.type, booking_advance_days |-> c.adv,
             is_active |-> c.bstate = "active"]>>)
    \o <<[id |-> 2, type |-> "salon", booking_advance_days |-> 30,
          is_active |-> TRUE]>>

ServiceTable(c) ==
    (IF c.sstate = "absent" THEN <<>>
     ELSE <<[id |-> 1,
             business_id |-> IF c.sstate = "foreign" THEN 2 ELSE 1,
             duration_minutes |-> c.dur, capacity |-> c.cap,
             requires_staff |-> c.type # "restaurant",
             buffer_before_minutes |-> c.bb, buffer_after_minutes |-> c.ba,
             is_active |-> c.sstate # "inactive"]>>)
    \o <<OtherService>>

StaffTable(c) ==
    <<[id |-> 1, business_id |-> 1, is_active |-> TRUE],
      [id |-> 2, business_id |-> 1, is_active |-> c.staff2 # "inactive"],
      [id |-> 3, business_id |-> 2, is_active |-> TRUE]>>

StaffServiceTable(c) ==
    {[staff_member_id |-> 1, service_id |-> 1],
     [staff_member_id |-> 1, service_id |-> 2],
     [staff_member_id |-> 2, service_id |-> 2],
     [staff_member_id |-> 3, service_id |-> 1]}
    \cup (IF c.staff2 = "unmapped" THEN {}
          ELSE {[staff_member_id |-> 2, service_id |-> 1]})

Rule(businessId, staffId, day, window, active) ==
    [business_id |-> businessId, staff_member_id |-> staffId,
     day_of_week |-> day, start_time |-> window.start_time,
     end_time |-> window.end_time, is_active |-> active]

RuleTable(c) ==
    LET day == getDayOfWeek(RequestDate(c))
        otherDay == (day + 1) % 7
        rules(staffId, windows) ==
            [i \in DOMAIN windows |-> Rule(1, staffId, day, windows[i], TRUE)]
    IN  <<Rule(1, 0, day, Window(8, 0, 8, 30), FALSE),
          Rule(1, 0, otherDay, Window(8, 0, 8, 30), TRUE),
          Rule(2, 0, day, Window(8, 0, 8, 30), TRUE),
          Rule(1, 1, day, Window(8, 0, 8, 30), FALSE),
          Rule(1, 2, otherDay, Window(8, 0, 8, 30), TRUE)>>
        \o rules(0, c.bizHours) \o rules(1, c.hours1) \o rules(2, c.hours2)
        \o <<Rule(2, 3, day, WindowA, TRUE)>>

Special(businessId, staffId, date, kind) ==
    [business_id |-> businessId, staff_member_id |-> staffId, date |-> date,
     is_available |-> kind # "closed",
     start_time |-> IF kind = "replace" THEN WindowC.start_time ELSE <<>>,
     end_time |-> IF kind = "replace" THEN WindowC.end_time ELSE <<>>]

SpecialTable(c) ==
    LET date == RequestDate(c)
    IN  <<Special(1, 0, date + 1, "closed"), Special(1, 1, date + 1, "closed"),
          Special(2, 0, date, "closed")>>
        \o (IF c.bizSpecial = "absent" THEN <<>>
            ELSE <<Special(1, 0, date, c.bizSpecial)>>)
        \o (IF c.special1 = "absent" THEN <<>>
            ELSE <<Special(1, 1, date, c.special1)>>)

\* A booking as handleCreateBooking stores it: end_time is start_time plus
\* the duration of its service.
BookingRow(c, b) ==
    LET duration == IF b.svc = 1 THEN c.dur ELSE OtherService.duration_minutes
        endTime == minutesToTime(timeToMinutes(b.start) + duration)
    IN  [business_id |-> 1, service_id |-> b.svc, staff_member_id |-> b.staff,
         booking_date |-> RequestDate(c) + b.dayOffset,
         start_time |-> Time(b.start[1], b.start[2]),
         end_time |-> Time(endTime[1], endTime[2]),
         party_size |-> b.party, status |-> b.status]

BookingTable(c) ==
    LET rows == SetToSeq(c.bookingSet)
    IN  [i \in DOMAIN rows |-> BookingRow(c, rows[i])]

\* The request-local state of one call of handleGetAvailability.
Current ==
    [params |-> params, pc |-> pc, business |-> business,
     service |-> service, staffRows |-> staffRows, staffIdx |-> staffIdx,
     hoursRows |-> hoursRows, allSlots |-> allSlots, reads |-> reads,
     failedAt |-> failedAt, result |-> result, responses |-> responses]

\* A request that passed the handler's validation and has not read yet.
FreshRequest(p) ==
    [params |-> p, pc |-> "business", business |-> <<>>, service |-> <<>>,
     staffRows |-> <<>>, staffIdx |-> 0, hoursRows |-> <<>>,
     allSlots |-> <<>>, reads |-> <<>>, failedAt |-> 0,
     result |-> [kind |-> "pending", slots |-> <<>>, error |-> ""],
     responses |-> <<>>]

FirstParams(c) ==
    [businessId |-> 1, serviceId |-> 1, date |-> RequestDate(c),
     staffMemberId |-> c.filter,
     staffMemberIdGiven |-> (c.filter # 0 \/ c.zeroFilter)]

NoRequest == [FreshRequest(FirstParams(DefaultConfig)) EXCEPT !.pc = "absent"]

NoProbe == [op |-> "none", args |-> <<>>, out |-> FALSE]

\* No HTTP request and no database call is under way.
Idle == http = <<>> /\ conn = <<>>

\* The tables, the clock and a request with parameters p about to start.
Start(c, p) ==
    /\ businesses = BusinessTable(c)
    /\ services = ServiceTable(c)
    /\ staff_members = StaffTable(c)
    /\ staff_services = StaffServiceTable(c)
    /\ availability_rules = RuleTable(c)
    /\ special_availability = SpecialTable(c)
    /\ bookings = BookingTable(c)
    /\ now = DateValue(FirstDay) + c.nowMin
    /\ params = p
    /\ pc = "business"
    /\ business = <<>>
    /\ service = <<>>
    /\ staffRows = <<>>
    /\ staffIdx = 0
    /\ hoursRows = <<>>
    /\ allSlots = <<>>
    /\ reads = <<>>
    /\ failedAt = 0
    /\ result = [kind |-> "pending", slots |-> <<>>, error |-> ""]
    /\ responses = <<>>

Init ==
    \E c \in Configurations :
        /\ Start(c, FirstParams(c))
        /\ other = NoRequest
        /\ interleaved = FALSE
        /\ dbChange = "none"
        /\ probe = NoProbe
        /\ Idle

Next ==
    \/ ReadBusiness
    \/ ReadService
    \/ ReadBusinessHours
    \/ ReadBusinessSpecial
    \/ ReadRestaurantBookings
    \/ ReadStaff
    \/ ReadStaffHours
    \/ ReadStaffSpecial
    \/ ReadStaffBookings

Spec == Init /\ [][Next]_vars

----------------------------------------------------------------------------
\* Two requests.  Node runs one continuation at a time and may resume the
\* other request whenever the running one awaits a query, so every
\* interleaving of the two requests' reads is a sequence of the steps above
\* with switches between them.  Each request holds its parameters and
\* locals in its own activation of calculateAvailableSlots; the module has
\* no variable of its own, and query() takes a client from the pool per
\* call.

tables == <<businesses, services, staff_members, staff_services,
            availability_rules, special_availability, bookings>>

Resume(ctx) ==
    /\ params' = ctx.params
    /\ pc' = ctx.pc
    /\ business' = ctx.business
    /\ service' = ctx.service
    /\ staffRows' = ctx.staffRows
    /\ staffIdx' = ctx.staffIdx
    /\ hoursRows' = ctx.hoursRows
    /\ allSlots' = ctx.allSlots
    /\ reads' = ctx.reads
    /\ failedAt' = ctx.failedAt
    /\ result' = ctx.result
    /\ responses' = ctx.responses

\* Faulty variant: the slot accumulator is one array shared by the requests.
SwitchSharingSlots ==
    /\ other.pc \notin {"absent", "done"}
    /\ Resume([other EXCEPT !.allSlots = allSlots])
    /\ other' = Current
    /\ interleaved' = (interleaved \/ (pc # "done" /\ reads # <<>>))
    /\ UNCHANGED <<tables, now, dbChange, probe, http, conn>>

\* The event loop resumes the other request.
Switch ==
    /\ other.pc \notin {"absent", "done"}
    /\ Resume(other)
    /\ other' = Current
    /\ interleaved' = (interleaved \/ (pc # "done" /\ reads # <<>>))
    /\ UNCHANGED <<tables, now, dbChange, probe, http, conn>>

\* One call has returned and the next has not started.
BetweenCalls ==
    /\ pc = "done"
    /\ other.pc = "business"
    /\ ~interleaved
    /\ dbChange = "none"

\* Between two calls a pending or confirmed booking is cancelled or
\* completed (Booking.status).
CancelBooking ==
    /\ BetweenCalls
    /\ \E i \in DOMAIN bookings, st \in {"cancelled", "completed"} :
          /\ bookings[i].status \in {"confirmed", "pending"}
          /\ bookings' = [bookings EXCEPT ![i].status = st]
    /\ dbChange' = "status"
    /\ UNCHANGED <<businesses, services, staff_members, staff_services,
                   availability_rules, special_availability, now, params,
                   pc, locals, reads, failedAt, result, responses, other,
                   interleaved, probe, http, conn>>

RECURSIVE SelectRows(_, _)
SelectRows(rows, keep) ==
    IF rows = <<>> THEN <<>>
    ELSE (IF Head(rows).status \in keep THEN <<Head(rows)>> ELSE <<>>)
         \o SelectRows(Tail(rows), keep)

\* Between two calls every cancelled or completed booking is deleted.
PurgeDeadBookings ==
    /\ BetweenCalls
    /\ \E i \in DOMAIN bookings :
          bookings[i].status \in {"cancelled", "completed"}
    /\ bookings' = SelectRows(bookings, {"confirmed", "pending"})
    /\ dbChange' = "purged"
    /\ UNCHANGED <<businesses, services, staff_members, staff_services,
                   availability_rules, special_availability, now, params,
                   pc, locals, reads, failedAt, result, responses, other,
                   interleaved, probe, http, conn>>

\* handleCreateBooking, between two availability calls.  bookingData holds
\* businessId, serviceId, staffMemberId (0: none), bookingDate and startTime
\* ("HH:MM"); validateBookingData checks neither date nor time.

CreateInputs ==
    [businessId : {1}, serviceId : {1, 2}, staffMemberId : {0, 1, 3},
     bookingDate : {params.date}, startTime : {<<9, 0>>, <<9, 20>>}]

CreateBusinessFound(data) ==
    \E i \in DOMAIN businesses :
        businesses[i].id = data.businessId /\ businesses[i].is_active

CreateServiceRows(data) ==
    {i \in DOMAIN services :
        /\ services[i].id = data.serviceId
        /\ services[i].business_id = data.businessId
        /\ services[i].is_active}

CreateStaffFound(data) ==
    /\ \E i \in DOMAIN staff_members :
          /\ staff_members[i].id = data.staffMemberId
          /\ staff_members[i].business_id = data.businessId
          /\ staff_members[i].is_active
    /\ \E ss \in staff_services :
          /\ ss.staff_member_id = data.staffMemberId
          /\ ss.service_id = data.serviceId

\* The checks before the insert: 404 or 400 when one fails.
CreateAccepted(data) ==
    /\ CreateBusinessFound(data)
    /\ CreateServiceRows(data) # {}
    /\ LET svc == services[CHOOSE i \in CreateServiceRows(data) : TRUE]
       IN  /\ ~(svc.requires_staff /\ data.staffMemberId = 0)
           /\ data.staffMemberId # 0 => CreateStaffFound(data)

\* The row of the INSERT: end time from the service's duration.
InsertedRow(data, status) ==
    LET svc == services[CHOOSE i \in CreateServiceRows(data) : TRUE]
        startMinutes == data.startTime[1] * 60 + data.startTime[2]
        endMinutes == startMinutes + svc.duration_minutes
        endHours == JsFloorDiv(endMinutes, 60)
        endMins == JsRem(endMinutes, 60)
    IN  [business_id |-> data.businessId, service_id |-> data.serviceId,
         staff_member_id |-> data.staffMemberId,
         booking_date |-> data.bookingDate,
         start_time |-> <<data.startTime[1], data.startTime[2], 0>>,
         end_time |-> <<endHours, endMins, 0>>,
         party_size |-> 1, status |-> status]

CreateFrame ==
    UNCHANGED <<businesses, services, staff_members, staff_services,
                availability_rules, special_availability, now, params,
                pc, locals, reads, failedAt, result, responses, other,
                interleaved, probe, http, conn>>

\* Faulty variant: the booking is inserted as cancelled.
handleCreateBookingCancelled ==
    /\ BetweenCalls
    /\ CreateFrame
    /\ \E data \in CreateInputs :
          \/ /\ ~CreateAccepted(data)
             /\ dbChange' = "rejected"
             /\ UNCHANGED bookings
          \/ /\ dbChange' = "failed"
             /\ UNCHANGED bookings
          \/ /\ CreateAccepted(data)
             /\ bookings' = Append(bookings, InsertedRow(data, "cancelled"))
             /\ dbChange' = "created"

\* One booking request: rejected by a check (400/404), failed at a query or
\* in the transaction before COMMIT (500, nothing stored), or inserted with
\* status 'pending' (answered 201, or 500 when a query after the
\* transaction rejects).
handleCreateBooking ==
    /\ BetweenCalls
    /\ CreateFrame
    /\ \E data \in CreateInputs :
          \/ /\ ~CreateAccepted(data)
             /\ dbChange' = "rejected"
             /\ UNCHANGED bookings
          \/ /\ dbChange' = "failed"
             /\ UNCHANGED bookings
          \/ /\ CreateAccepted(data)
             /\ bookings' = Append(bookings, InsertedRow(data, "pending"))
             /\ dbChange' = "created"

PairStaffBookings ==
    {BookingParams(1, <<9, 30>>, 1, 1, "confirmed", 0),
     BookingParams(1, <<9, 30>>, 2, 1, "cancelled", 0),
     BookingParams(2, <<10, 0>>, 1, 1, "pending", 0)}

PairRestaurantBookings ==
    {BookingParams(0, <<9, 30>>, 1, 2, "confirmed", 0),
     BookingParams(0, <<9, 30>>, 1, 1, "cancelled", 0)}

PairConfigs ==
    {[DefaultConfig EXCEPT !.hours2 = h, !.bookingSet = bs] :
        h \in {<<WindowA>>, <<>>},
        bs \in SubsetsUpTo(PairStaffBookings, MaxBookings)}
    \cup {[DefaultConfig EXCEPT !.type = "restaurant", !.cap = 1,
                                !.bookingSet = bs] :
             bs \in SubsetsUpTo(PairRestaurantBookings, MaxBookings)}
    \cup {[DefaultConfig EXCEPT !.dateOffset = MaxAdvanceDays]}

\* The parameters of the second request: the first one's, or another date,
\* staff filter or business.
SecondParams(c) ==
    {FirstParams(c),
     [FirstParams(c) EXCEPT !.date = RequestDate(c) + 1],
     [FirstParams(c) EXCEPT !.staffMemberId = 1,
                            !.staffMemberIdGiven = TRUE],
     [FirstParams(c) EXCEPT !.businessId = 2]}

InitPair ==
    \E c \in PairConfigs :
        \E p \in SecondParams(c) :
            /\ Start(c, FirstParams(c))
            /\ other = FreshRequest(p)
            /\ interleaved = FALSE
            /\ dbChange = "none"
            /\ probe = NoProbe
            /\ Idle

NextPair ==
    \/ ReadBusiness
    \/ ReadService
    \/ ReadBusinessHours
    \/ ReadBusinessSpecial
    \/ ReadRestaurantBookings
    \/ ReadStaff
    \/ ReadStaffHours
    \/ ReadStaffSpecial
    \/ ReadStaffBookings
    \/ Switch
    \/ CancelBooking
    \/ PurgeDeadBookings
    \/ handleCreateBooking

SpecPair == InitPair /\ [][NextPair]_vars

----------------------------------------------------------------------------
\* Vocabulary of the properties, read off the tables and the request.

Done == pc = "done"

Today == now \div (24 * 60)

LastRead == IF reads = <<>> THEN "" ELSE reads[Len(reads)]

RequestedBusinessRows ==
    {i \in DOMAIN businesses : businesses[i].id = params.businessId}

RequestedServiceRows ==
    {i \in DOMAIN services :
        /\ services[i].id = params.serviceId
        /\ services[i].business_id = params.businessId}

BusinessUsable ==
    \E i \in RequestedBusinessRows : businesses[i].is_active

ServiceUsable ==
    \E i \in RequestedServiceRows : services[i].is_active

RequestedBusiness == businesses[CHOOSE i \in RequestedBusinessRows : TRUE]

RequestedService == services[CHOOSE i \in RequestedServiceRows : TRUE]

CapacityBased == BusinessUsable /\ RequestedBusiness.type = "restaurant"

StaffBased == BusinessUsable /\ RequestedBusiness.type # "restaurant"

\* The call went through the staff-based path and returned its slot list.
StaffOutput ==
    Done /\ StaffBased /\ result.kind = "slots" /\ LastRead = "staff_bookings"

\* The call went through the capacity-based path and returned its slot list.
CapacityOutput ==
    Done /\ CapacityBased /\ result.kind = "slots"
    /\ LastRead = "restaurant_bookings"

\* Pending and confirmed bookings on the requested date.
LiveBookings ==
    {j \in DOMAIN bookings :
        /\ bookings[j].status \in {"pending", "confirmed"}
        /\ bookings[j].booking_date = params.date}

\* Those of the requested business.
LiveBusinessBookings ==
    {j \in LiveBookings : bookings[j].business_id = params.businessId}

BookedService(j) ==
    services[CHOOSE i \in DOMAIN services :
                 services[i].id = bookings[j].service_id]

Overlaps(s1, e1, s2, e2) == s1 < e2 /\ s2 < e1

----------------------------------------------------------------------------
----------------------------------------------------------------------------
\* C2: in the capacity-based output every slot has
\* available = (usedCapacity < capacity), usedCapacity being the sum of
\* partySize over the pending/confirmed bookings of the business, the
\* requested service and the date that overlap the slot by any amount.
RECURSIVE PartySum(_, _, _)
PartySum(s1, e1, rows) ==
    IF rows = {} THEN 0
    ELSE LET j == CHOOSE k \in rows : TRUE
         IN  (IF Overlaps(s1, e1, timeToMinutes(bookings[j].start_time),
                          timeToMinutes(bookings[j].end_time))
              THEN bookings[j].party_size ELSE 0)
             + PartySum(s1, e1, rows \ {j})

C2_AvailableIffBelowCapacity ==
    CapacityOutput =>
        \A i \in DOMAIN result.slots :
            LET slot == result.slots[i]
                used == PartySum(timeToMinutes(slot.start),
                                 timeToMinutes(slot.end),
                                 {j \in LiveBusinessBookings :
                                    bookings[j].service_id = params.serviceId})
            IN  slot.available = (used < RequestedService.capacity)

----------------------------------------------------------------------------
\* C3: the capacity-based output holds every generated candidate slot, with
\* the same start and end at the same position; the bookings never remove or
\* add a slot.
C3_CapacitySlotsNeverDropped ==
    CapacityOutput =>
        /\ Len(result.slots) = Len(allSlots)
        /\ \A i \in DOMAIN allSlots :
              /\ result.slots[i].start = allSlots[i].start
              /\ result.slots[i].end = allSlots[i].end

\* C3 witness: a capacity-based output with candidates and a pending or
\* confirmed booking of the requested service overlapping one of them.
C3_Witness ==
    /\ CapacityOutput
    /\ Len(result.slots) > 0
    /\ \E i \in DOMAIN allSlots : \E j \in LiveBusinessBookings :
          /\ bookings[j].service_id = params.serviceId
          /\ Overlaps(timeToMinutes(allSlots[i].start),
                      timeToMinutes(allSlots[i].end),
                      timeToMinutes(bookings[j].start_time),
                      timeToMinutes(bookings[j].end_time))

----------------------------------------------------------------------------
----------------------------------------------------------------------------
\* C5: the staff-based output is sorted ascending by (start, staffMemberId).
C5_SortedByStartThenStaff ==
    StaffOutput =>
        \A i, j \in DOMAIN result.slots :
            i < j =>
                LET a == result.slots[i]
                    b == result.slots[j]
                IN  \/ timeToMinutes(a.start) < timeToMinutes(b.start)
                    \/ /\ timeToMinutes(a.start) = timeToMinutes(b.start)
                       /\ a.staffMemberId <= b.staffMemberId

----------------------------------------------------------------------------
\* C6: with service bufferBefore 0, a candidate slot of staff member s is
\* absent from the staff-based output if and only if
\* [start, start + duration + bufferAfter) overlaps
\* [booking.start, booking.end + the booking's bufferAfter) for some pending
\* or confirmed booking assigned to s; every other candidate is present.
CandidateBlocked(slot) ==
    \E j \in LiveBookings :
        /\ bookings[j].staff_member_id = slot.staffMemberId
        /\ Overlaps(timeToMinutes(slot.start),
                    timeToMinutes(slot.start)
                    + RequestedService.duration_minutes
                    + RequestedService.buffer_after_minutes,
                    timeToMinutes(bookings[j].start_time),
                    timeToMinutes(bookings[j].end_time)
                    + BookedService(j).buffer_after_minutes)

InOutput(slot) ==
    \E k \in DOMAIN result.slots :
        /\ result.slots[k].start = slot.start
        /\ result.slots[k].staffMemberId = slot.staffMemberId

C6_AbsentIffBlocked ==
    (StaffOutput /\ RequestedService.buffer_before_minutes = 0) =>
        /\ \A i \in DOMAIN allSlots :
              ~InOutput(allSlots[i]) <=> CandidateBlocked(allSlots[i])
        /\ \A k \in DOMAIN result.slots :
              \E i \in DOMAIN allSlots : allSlots[i] = result.slots[k]

\* C6 witness: scenario B (hours 09:00-17:00, duration 30, buffers 0/10, one
\* booking 10:00-10:30): of the 32 candidates exactly those starting at
\* 09:30, 09:45, 10:00, 10:15 and 10:30 are absent.
C6_Witness ==
    /\ StaffOutput
    /\ RequestedService.buffer_before_minutes = 0
    /\ RequestedService.duration_minutes = 30
    /\ RequestedService.buffer_after_minutes = 10
    /\ Len(allSlots) = 32
    /\ allSlots[1].start = <<9, 0>>
    /\ allSlots[32].start = <<16, 45>>
    /\ {timeToMinutes(allSlots[i].start) :
            i \in {k \in DOMAIN allSlots : ~InOutput(allSlots[k])}}
       = {570, 585, 600, 615, 630}

----------------------------------------------------------------------------
\* C7: for a capacity-based business with one business-wide rule window, no
\* override and no bookings, the output is exactly the slots
\* [windowStart + 15k, windowStart + 15k + duration), k = 0, 1, ..., while
\* windowStart + 15k + duration <= windowEnd, in ascending order, all
\* available.
BusinessWideRules ==
    {i \in DOMAIN availability_rules :
        /\ availability_rules[i].business_id = params.businessId
        /\ availability_rules[i].staff_member_id = 0
        /\ availability_rules[i].day_of_week = params.date % 7
        /\ availability_rules[i].is_active}

BusinessWideOverrides ==
    {i \in DOMAIN special_availability :
        /\ special_availability[i].business_id = params.businessId
        /\ special_availability[i].staff_member_id = 0
        /\ special_availability[i].date = params.date}

GridLength(windowStart, windowEnd, duration) ==
    IF windowStart + duration > windowEnd THEN 0
    ELSE (windowEnd - windowStart - duration) \div 15 + 1

C7_PlainGrid ==
    ( /\ Done
      /\ failedAt = 0
      /\ CapacityBased
      /\ ServiceUsable
      /\ params.date <= Today + RequestedBusiness.booking_advance_days
      /\ Cardinality(BusinessWideRules) = 1
      /\ BusinessWideOverrides = {}
      /\ LiveBusinessBookings = {} ) =>
        LET rule == availability_rules[CHOOSE i \in BusinessWideRules : TRUE]
            windowStart == rule.start_time[1] * 60 + rule.start_time[2]
            windowEnd == rule.end_time[1] * 60 + rule.end_time[2]
            duration == RequestedService.duration_minutes
            n == GridLength(windowStart, windowEnd, duration)
        IN  /\ result.kind = "slots"
            /\ Len(result.slots) = n
            /\ \A k \in 1..n :
                  LET slot == result.slots[k]
                      from == windowStart + 15 * (k - 1)
                  IN  /\ slot.start = <<from \div 60, from % 60>>
                      /\ slot.end = <<(from + duration) \div 60,
                                      (from + duration) % 60>>
                      /\ slot.available

\* C7 witness: scenario A (09:00-17:00, duration 30): 31 slots, 09:00
\* through 16:30.
C7_Witness ==
    /\ Done
    /\ CapacityBased
    /\ LiveBusinessBookings = {}
    /\ BusinessWideOverrides = {}
    /\ Cardinality(BusinessWideRules) = 1
    /\ Len(result.slots) = 31
    /\ result.slots[1].start = <<9, 0>>
    /\ result.slots[31].start = <<16, 30>>
    /\ result.slots[31].end = <<17, 0>>

----------------------------------------------------------------------------
\* C8: when the business row is absent or inactive the call fails with the
\* not-found error after exactly one read, the business read; when the
\* business is active and the service (scoped to the business) is absent or
\* inactive it fails with the not-found error after exactly two reads; in
\* both cases no slot is computed.  (A read that rejects ends the call with
\* its own error, after the same reads.)
C8_FailFastValidation ==
    /\ ~BusinessUsable =>
          /\ Len(reads) <= 1
          /\ allSlots = <<>>
          /\ Done =>
                /\ reads = <<"business">>
                /\ result.kind = "error"
                /\ result.slots = <<>>
                /\ failedAt = 0 =>
                      result.error = "Business not found or inactive"
    /\ (BusinessUsable /\ ~ServiceUsable) =>
          /\ Len(reads) <= 2
          /\ allSlots = <<>>
          /\ Done =>
                /\ result.kind = "error"
                /\ result.slots = <<>>
                /\ failedAt = 0 =>
                      /\ reads = <<"business", "service">>
                      /\ result.error = "Service not found or inactive"

\* C8 witness: an inactive business, rejected after the business read.
C8_Witness ==
    /\ Done
    /\ RequestedBusinessRows # {}
    /\ ~BusinessUsable
    /\ failedAt = 0
    /\ reads = <<"business">>
    /\ result.error = "Business not found or inactive"

----------------------------------------------------------------------------
\* C9: for an active business and service, a date later than
\* today + advanceBookingDays gives an empty slot list, no error, and no
\* read after the business and service reads; a date equal to
\* today + advanceBookingDays is not cut off.
C9_Horizon ==
    (BusinessUsable /\ ServiceUsable) =>
        /\ params.date > Today + RequestedBusiness.booking_advance_days =>
              /\ Len(reads) <= 2
              /\ (Done /\ failedAt = 0) =>
                    /\ reads = <<"business", "service">>
                    /\ result = [kind |-> "slots", slots |-> <<>>,
                                 error |-> ""]
                    /\ responses[1].status = 200
        /\ (/\ params.date <= Today + RequestedBusiness.booking_advance_days
            /\ Done
            /\ failedAt = 0) =>
              /\ Len(reads) >= 3
              /\ reads[3] \in {"business_hours", "staff"}

\* C9 witness: the date is today + advanceBookingDays + 1 and the call has
\* returned the empty list after two reads.
C9_Witness ==
    /\ Done
    /\ BusinessUsable
    /\ ServiceUsable
    /\ params.date = Today + RequestedBusiness.booking_advance_days + 1
    /\ reads = <<"business", "service">>
    /\ result.kind = "slots"
    /\ result.slots = <<>>

----------------------------------------------------------------------------
\* C10: a request ends in exactly one outcome, a slot list or one error
\* without slots; a read that fails is the outcome of the call: it is the
\* last read issued, it is not issued again, and no slot computed before it
\* is returned.
C10_AllOrNothing ==
    /\ Done <=> result.kind # "pending"
    /\ Len(responses) = IF Done THEN 1 ELSE 0
    /\ result.kind = "error" => result.slots = <<>>
    /\ Done =>
          /\ result.kind \in {"slots", "error"}
          /\ responses[1].slots = result.slots
          /\ responses[1].error = result.error
          /\ (responses[1].status = 200) <=> (result.kind = "slots")
          /\ (responses[1].status = 400) <=> (result.kind = "error")
    /\ failedAt # 0 =>
          /\ Done
          /\ failedAt = Len(reads)
          /\ result = [kind |-> "error", slots |-> <<>>,
                       error |-> "query failed"]
          /\ responses[1].slots = <<>>

\* C10 witness: the bookings read of the staff path fails after candidate
\* slots were generated.
C10_Witness ==
    /\ Done
    /\ failedAt = Len(reads)
    /\ LastRead = "staff_bookings"
    /\ allSlots # <<>>
    /\ result.kind = "error"

----------------------------------------------------------------------------
\* The helper functions called on their own: the arguments are drawn from a
\* bounded set and a call records the function and what it returned.

MaxProbeSteps == 6

\* "08:55", "09:00", ... in steps of five minutes.
ProbeTimes ==
    {<<(535 + 5 * k) \div 60, (535 + 5 * k) % 60>> : k \in 0..MaxProbeSteps}

Before(t, u) == t[1] * 60 + t[2] < u[1] * 60 + u[2]

InitProbe ==
    /\ Start(DefaultConfig, FirstParams(DefaultConfig))
    /\ other = NoRequest
    /\ interleaved = FALSE
    /\ dbChange = "none"
    /\ Idle
    /\ \E a, b, c, d \in ProbeTimes :
          /\ Before(a, b)
          /\ Before(c, d)
          /\ probe = [op |-> "input", args |-> <<a, b, c, d>>, out |-> FALSE]

CallTimesOverlap ==
    /\ probe.op = "input"
    /\ probe' = [op |-> "timesOverlap", args |-> probe.args,
                 out |-> timesOverlap(probe.args[1], probe.args[2],
                                      probe.args[3], probe.args[4])]
    /\ UNCHANGED <<dbvars, pc, locals, reads, failedAt, result, responses,
                   other, interleaved, dbChange, http, conn>>

CallTimesOverlapExact ==
    /\ probe.op = "input"
    /\ probe' = [op |-> "timesOverlapExact", args |-> probe.args,
                 out |-> timesOverlapExact(probe.args[1], probe.args[2],
                                           probe.args[3], probe.args[4])]
    /\ UNCHANGED <<dbvars, pc, locals, reads, failedAt, result, responses,
                   other, interleaved, dbChange, http, conn>>

NextProbe ==
    \/ CallTimesOverlap
    \/ CallTimesOverlapExact

SpecProbe == InitProbe /\ [][NextProbe]_vars

----------------------------------------------------------------------------
\* timeToMinutes and minutesToTime called on their own and on each other's
\* result.  A time string "HH:MM" is the tuple of its two numbers, so
\* "24:00" is <<24, 0>> and "10:75" is <<10, 75>>; args holds the argument
\* of the call and, after it, the input the argument was computed from.

MaxHour == 24
MaxMinute == 75
MinutesBelow == 65

ClockTimes == {<<h, m>> : h \in 0..MaxHour, m \in 0..MaxMinute}

ClockMinutes == (0 - MinutesBelow)..(MaxHour * 60 + MaxMinute)

\* The call returned the value; neither function has a throw statement.
Completed(value) == [threw |-> "none", value |-> value]

InitClock ==
    /\ Start(DefaultConfig, FirstParams(DefaultConfig))
    /\ other = NoRequest
    /\ interleaved = FALSE
    /\ dbChange = "none"
    /\ Idle
    /\ \/ \E t \in ClockTimes :
             probe = [op |-> "time", args |-> <<t>>, out |-> FALSE]
       \/ \E m \in ClockMinutes :
             probe = [op |-> "minutes", args |-> <<m>>, out |-> FALSE]

ClockFrame ==
    UNCHANGED <<dbvars, pc, locals, reads, failedAt, result, responses,
                other, interleaved, dbChange, http, conn>>

CallTimeToMinutes ==
    /\ \/ probe.op = "time"
       \/ probe.op = "minutesToTime" /\ Len(probe.args) = 1
    /\ LET timeString == IF probe.op = "time" THEN probe.args[1]
                         ELSE probe.out.value
       IN  probe' = [op |-> "timeToMinutes",
                     args |-> <<timeString>> \o
                              (IF probe.op = "time" THEN <<>> ELSE probe.args),
                     out |-> Completed(timeToMinutes(timeString))]
    /\ ClockFrame

CallMinutesToTime ==
    /\ \/ probe.op = "minutes"
       \/ probe.op = "timeToMinutes" /\ Len(probe.args) = 1
    /\ LET totalMinutes == IF probe.op = "minutes" THEN probe.args[1]
                           ELSE probe.out.value
       IN  probe' = [op |-> "minutesToTime",
                     args |-> <<totalMinutes>> \o
                              (IF probe.op = "minutes" THEN <<>>
                               ELSE probe.args),
                     out |-> Completed(minutesToTime(totalMinutes))]
    /\ ClockFrame

NextClock ==
    \/ CallTimeToMinutes
    \/ CallMinutesToTime

SpecClock == InitClock /\ [][NextClock]_vars

----------------------------------------------------------------------------
\* The HTTP server of index.ts: the listener given to createServer and the
\* health-check listener added with server.on('request'), run in that order
\* for every request; the first is async and continues after its awaits.
\* A path is the tuple of its '/'-separated parts ("/health" is
\* <<"", "health">>); a pattern part is a literal or a ':name' parameter.

Lit(text) == [dynamic |-> FALSE, text |-> text]
Dyn(name) == [dynamic |-> TRUE, text |-> name]

routes ==
    <<[method |-> "POST", handler |-> "handleLogin",
       pattern |-> <<Lit(""), Lit("api"), Lit("auth"), Lit("login")>>],
      [method |-> "POST", handler |-> "handleRegister",
       pattern |-> <<Lit(""), Lit("api"), Lit("auth"), Lit("register")>>],
      [method |-> "GET", handler |-> "handleGetPublicBusiness",
       pattern |-> <<Lit(""), Lit("api"), Lit("businesses"), Dyn("slug"),
                     Lit("public")>>],
      [method |-> "GET", handler |-> "handleGetBusinesses",
       pattern |-> <<Lit(""), Lit("api"), Lit("businesses")>>],
      [method |-> "POST", handler |-> "handleCreateBooking",
       pattern |-> <<Lit(""), Lit("api"), Lit("bookings"), Lit("create")>>],
      [method |-> "GET", handler |-> "handleGetBookings",
       pattern |-> <<Lit(""), Lit("api"), Lit("bookings"), Lit("business"),
                     Dyn("businessId")>>],
      [method |-> "GET", handler |-> "handleGetAvailability",
       pattern |-> <<Lit(""), Lit("api"), Lit("availability"),
                     Lit("slots")>>]>>

matchRoute(pathname, pattern) ==
    /\ Len(pattern) = Len(pathname)
    /\ \A i \in DOMAIN pattern :
          pattern[i].dynamic \/ pattern[i].text = pathname[i]

\* The loop over the routes with its break: the index of the matched
\* route, 0 when none matches.
RECURSIVE FindRoute(_, _, _)
FindRoute(method, pathname, from) ==
    IF from > Len(routes) THEN 0
    ELSE IF routes[from].method = method
            /\ matchRoute(pathname, routes[from].pattern)
    THEN from
    ELSE FindRoute(method, pathname, from + 1)

RequestPaths ==
    {<<"", "health">>, <<"", "nope">>,
     <<"", "api", "availability", "slots">>,
     <<"", "api", "bookings", "create">>,
     <<"", "api", "bookings", "business", "7">>,
     <<"", "api", "businesses">>,
     <<"", "api", "businesses", "salon", "public">>}

\* A request: req.method and req.url (path and whether a query string
\* follows), and a response nothing was done to yet.
Request(method, path, hasQuery) ==
    [method |-> method, path |-> path, hasQuery |-> hasQuery,
     stage |-> "arrived", first |-> "none", handlers |-> <<>>,
     ends |-> 0, afterEnd |-> 0, statusCode |-> 0, crashed |-> FALSE]

InitHttp ==
    /\ Start(DefaultConfig, FirstParams(DefaultConfig))
    /\ other = NoRequest
    /\ interleaved = FALSE
    /\ dbChange = "none"
    /\ probe = NoProbe
    /\ conn = <<>>
    /\ \E method \in {"GET", "POST", "OPTIONS", "PUT"},
          path \in RequestPaths, hasQuery \in BOOLEAN :
          http = Request(method, path, hasQuery)

HttpFrame ==
    UNCHANGED <<dbvars, pc, locals, reads, failedAt, result, responses,
                other, interleaved, dbChange, probe, conn>>

\* res.status(code).json(...) or .end(): the response is ended.
Ended(h, code) == [h EXCEPT !.ends = @ + 1, !.statusCode = code]

\* The route handler is called: it answers before its first await or
\* suspends.
CallHandler(h, route) ==
    LET called == [h EXCEPT !.handlers = Append(@, routes[route].handler)]
    IN  {[Ended(called, 200) EXCEPT !.first = "none"],
         [called EXCEPT !.first = "await_handler"]}

\* The createServer listener up to its first await.
FirstListener ==
    /\ http # <<>>
    /\ http.stage = "arrived"
    /\ HttpFrame
    /\ LET route == FindRoute(http.method, http.path, 1)
           h == [http EXCEPT !.stage = "first_done"]
       IN  IF http.method = "OPTIONS"
           THEN http' = Ended(h, 200)
           ELSE IF route = 0
           THEN http' = Ended(h, 404)
           ELSE IF http.method \in {"POST", "PUT", "PATCH"}
           THEN http' = [h EXCEPT !.first = "await_body"]
           ELSE http' \in CallHandler(h, route)

\* The health-check listener: for GET /health it sets a header and ends
\* the response; setHeader throws when the response was ended already, and
\* nothing catches what a listener throws.
HealthListener ==
    /\ http # <<>>
    /\ http.stage = "first_done"
    /\ HttpFrame
    /\ LET h == [http EXCEPT !.stage = "second_done"]
       IN  IF http.path = <<"", "health">> /\ ~http.hasQuery
              /\ http.method = "GET"
           THEN IF http.ends > 0
                THEN http' = [h EXCEPT !.afterEnd = @ + 1, !.crashed = TRUE]
                ELSE http' = Ended(h, 200)
           ELSE http' = h

\* parseBody settles: the handler is called, or 400 for invalid JSON.
BodyParsed ==
    /\ http # <<>>
    /\ http.stage = "second_done"
    /\ ~http.crashed
    /\ http.first = "await_body"
    /\ HttpFrame
    /\ \/ http' = [Ended(http, 400) EXCEPT !.first = "none"]
       \/ http' \in CallHandler(http,
                                FindRoute(http.method, http.path, 1))

\* The awaited handler settles: it has answered; or it throws, and the
\* catch answers 500 unless headersSent.
HandlerSettles ==
    /\ http # <<>>
    /\ http.stage = "second_done"
    /\ ~http.crashed
    /\ http.first = "await_handler"
    /\ HttpFrame
    /\ \/ http' = [Ended(http, 200) EXCEPT !.first = "none"]
       \/ http' = [Ended(http, 500) EXCEPT !.first = "none"]
       \/ http' = [Ended(http, 200) EXCEPT !.first = "threw"]

NextHttp ==
    \/ FirstListener
    \/ HealthListener
    \/ BodyParsed
    \/ HandlerSettles

SpecHttp == InitHttp /\ [][NextHttp]_vars

----------------------------------------------------------------------------
\* query() and transaction() of the database module: each call takes a
\* client from the pool, awaits its statements one after the other and
\* releases the client in its finally block.  Two calls are in progress at
\* a time; an error is named after the step that raised it.

DbCall(kind) ==
    [kind |-> kind, stage |-> "connect", acquired |-> FALSE, released |-> 0,
     log |-> <<>>, caught |-> "none", outcome |-> "pending",
     error |-> "none"]

InitDb ==
    /\ Start(DefaultConfig, FirstParams(DefaultConfig))
    /\ other = NoRequest
    /\ interleaved = FALSE
    /\ dbChange = "none"
    /\ probe = NoProbe
    /\ http = <<>>
    /\ \E first \in {"query", "transaction"},
          second \in {"query", "transaction"} :
          conn = <<DbCall(first), DbCall(second)>>

DbFrame ==
    UNCHANGED <<dbvars, pc, locals, reads, failedAt, result, responses,
                other, interleaved, dbChange, probe, http>>

\* The finally block, then the call settles: fulfilled, or rejected with
\* the given error.
Released(c) == [c EXCEPT !.released = @ + 1, !.stage = "settled"]
Returned(c) == [Released(c) EXCEPT !.outcome = "returned"]
Thrown(c, error) ==
    [Released(c) EXCEPT !.outcome = "thrown", !.error = error]

\* await pool.connect(): a client, or the rejection reaches the caller
\* (the try block was not entered).
Connect(i) ==
    /\ conn[i].stage = "connect"
    /\ DbFrame
    /\ \/ conn' = [conn EXCEPT ![i].acquired = TRUE,
                                ![i].stage = IF conn[i].kind = "query"
                                             THEN "query" ELSE "begin"]
       \/ conn' = [conn EXCEPT ![i].stage = "settled",
                                ![i].outcome = "thrown",
                                ![i].error = "connect"]

\* query(): await client.query(text, params), finally release.
RunQuery(i) ==
    /\ conn[i].stage = "query"
    /\ DbFrame
    /\ LET c == [conn[i] EXCEPT !.log = Append(@, "query")]
       IN  \/ conn' = [conn EXCEPT ![i] = Returned(c)]
           \/ conn' = [conn EXCEPT ![i] = Thrown(c, "query")]

\* transaction(): await client.query('BEGIN').
Begin(i) ==
    /\ conn[i].stage = "begin"
    /\ DbFrame
    /\ LET c == [conn[i] EXCEPT !.log = Append(@, "BEGIN")]
       IN  \/ conn' = [conn EXCEPT ![i] = [c EXCEPT !.stage = "callback"]]
           \/ conn' = [conn EXCEPT ![i] = [c EXCEPT !.stage = "rollback",
                                                   !.caught = "BEGIN"]]

\* transaction(): await callback(client).
Callback(i) ==
    /\ conn[i].stage = "callback"
    /\ DbFrame
    /\ LET c == [conn[i] EXCEPT !.log = Append(@, "callback")]
       IN  \/ conn' = [conn EXCEPT ![i] = [c EXCEPT !.stage = "commit"]]
           \/ conn' = [conn EXCEPT ![i] = [c EXCEPT !.stage = "rollback",
                                                   !.caught = "callback"]]

\* transaction(): await client.query('COMMIT'), return result, finally
\* release; a rejected COMMIT is caught as any other error.
Commit(i) ==
    /\ conn[i].stage = "commit"
    /\ DbFrame
    /\ LET c == [conn[i] EXCEPT !.log = Append(@, "COMMIT")]
       IN  \/ conn' = [conn EXCEPT ![i] = Returned(c)]
           \/ conn' = [conn EXCEPT ![i] = [c EXCEPT !.stage = "rollback",
                                                   !.caught = "COMMIT"]]

\* transaction(): catch: await client.query('ROLLBACK'); throw error;
\* finally release.  A rejected ROLLBACK leaves the catch block with its
\* own error before throw error is reached.
Rollback(i) ==
    /\ conn[i].stage = "rollback"
    /\ DbFrame
    /\ LET c == [conn[i] EXCEPT !.log = Append(@, "ROLLBACK")]
       IN  \/ conn' = [conn EXCEPT ![i] = Thrown(c, conn[i].caught)]
           \/ conn' = [conn EXCEPT ![i] = Thrown(c, "ROLLBACK")]

NextDb ==
    \/ \E i \in DOMAIN conn : Connect(i)
    \/ \E i \in DOMAIN conn : RunQuery(i)
    \/ \E i \in DOMAIN conn : Begin(i)
    \/ \E i \in DOMAIN conn : Callback(i)
    \/ \E i \in DOMAIN conn : Commit(i)
    \/ \E i \in DOMAIN conn : Rollback(i)

SpecDb == InitDb /\ [][NextDb]_vars

----------------------------------------------------------------------------
\* Two calls on the same tables.

BothDone == pc = "done" /\ other.pc = "done"

NeitherFailed == failedAt = 0 /\ other.failedAt = 0

\* The second call started after the first had returned.
OneAfterTheOther == BothDone /\ ~interleaved

\* C11: two calls made one after the other with identical businessId,
\* serviceId, date and staffMemberId, at the same instant of the clock and
\* with no change of the tables in between, return identical slot lists in
\* identical order.
C11_RepeatedCallSameList ==
    (/\ OneAfterTheOther
     /\ NeitherFailed
     /\ dbChange = "none"
     /\ params = other.params)
    => result = other.result

\* The earlier call is the one that had returned when the bookings were
\* changed; the later call is the one that ran afterwards.
EarlierSlots == other.result.slots
LaterSlots == result.slots

SameCallRepeated ==
    /\ OneAfterTheOther
    /\ NeitherFailed
    /\ params = other.params
    /\ staffRows = other.staffRows

\* C12: only pending and confirmed bookings occupy time.  In both
\* strategies a call returns the same list after every cancelled or
\* completed booking has been deleted as before; and after a pending or
\* confirmed booking has turned cancelled or completed, every slot that was
\* returned (as available) is still returned (as available): slots can only
\* appear or become available.
C12_OnlyLiveBookingsOccupyTime ==
    SameCallRepeated =>
        /\ dbChange = "purged" => result = other.result
        /\ dbChange = "status" =>
              /\ result.kind = other.result.kind
              /\ \A i \in DOMAIN EarlierSlots :
                    EarlierSlots[i].available =>
                        \E j \in DOMAIN LaterSlots :
                            LaterSlots[j] = EarlierSlots[i]
              /\ Len(LaterSlots) >= Len(EarlierSlots)

\* A staff member's booking was cancelled between two calls and the later
\* call returns slots the earlier one had dropped.
C12_Witness ==
    /\ SameCallRepeated
    /\ dbChange = "status"
    /\ Len(LaterSlots) > Len(EarlierSlots)
    /\ Len(EarlierSlots) > 0

\* Cancelled bookings were deleted between two staff-based calls that
\* return slots.
C12_WitnessPurged ==
    /\ SameCallRepeated
    /\ dbChange = "purged"
    /\ result.kind = "slots"
    /\ Len(staffRows) > 0
    /\ Len(LaterSlots) > 0

----------------------------------------------------------------------------
\* Staff member m is an active member of the requested business who is
\* mapped to the requested service.
EligibleStaff(m) ==
    /\ \E i \in DOMAIN staff_members :
          /\ staff_members[i].id = m
          /\ staff_members[i].business_id = params.businessId
          /\ staff_members[i].is_active
    /\ \E ss \in staff_services :
          ss.staff_member_id = m /\ ss.service_id = params.serviceId

\* C13: every slot of a staff-based result carries the id of an active
\* staff member of the requested business who is mapped to the requested
\* service, and is marked available; no slot lacks a staff id or is marked
\* unavailable.
C13_SlotsOfEligibleStaffOnly ==
    StaffOutput =>
        \A i \in DOMAIN result.slots :
            /\ result.slots[i].staffMemberId # 0
            /\ EligibleStaff(result.slots[i].staffMemberId)
            /\ result.slots[i].available = TRUE

\* A staff-based result with slots while the business has a member who is
\* inactive or not mapped to the service and has working hours that day.
C13_Witness ==
    /\ StaffOutput
    /\ Len(result.slots) > 0
    /\ params.staffMemberId = 0
    /\ \E i \in DOMAIN staff_members :
          /\ staff_members[i].business_id = params.businessId
          /\ ~EligibleStaff(staff_members[i].id)
          /\ \E r \in DOMAIN availability_rules :
                /\ availability_rules[r].staff_member_id = staff_members[i].id
                /\ availability_rules[r].day_of_week = params.date % 7
                /\ availability_rules[r].is_active

----------------------------------------------------------------------------
\* Minutes since midnight of a stored or returned time.
Minutes(t) == t[1] * 60 + t[2]

\* The start times start, start + 15, ... of the candidates of length
\* `length` that end at or before windowEnd.
GridStarts(windowStart, windowEnd, length) ==
    [k \in 1..GridLength(windowStart, windowEnd, length) |->
        windowStart + 15 * (k - 1)]

StartsOf(slots) == [k \in DOMAIN slots |-> Minutes(slots[k].start)]

EndsOf(slots) == [k \in DOMAIN slots |-> Minutes(slots[k].end)]

\* The grids of the rule rows in S, one after the other in table order.
RECURSIVE RuleGrids(_, _)
RuleGrids(S, length) ==
    IF S = {} THEN <<>>
    ELSE LET i == CHOOSE j \in S : \A k \in S : j <= k
             rule == availability_rules[i]
         IN  GridStarts(Minutes(rule.start_time), Minutes(rule.end_time),
                        length)
             \o RuleGrids(S \ {i}, length)

ClosedOverride(S) ==
    \E i \in S : ~special_availability[i].is_available

ReplacingOverrides(S) ==
    {i \in S : /\ special_availability[i].is_available
               /\ special_availability[i].start_time # <<>>
               /\ special_availability[i].end_time # <<>>}

CapacityPathRan ==
    /\ Done
    /\ failedAt = 0
    /\ CapacityBased
    /\ ServiceUsable
    /\ params.date <= Today + RequestedBusiness.booking_advance_days

\* C14: in the capacity path the effective window is (a) none, and the
\* result empty, when there is no active business-wide rule for the day of
\* the week or the business-wide override of the date is closed; (b) the
\* override's start and end when the override supplies replacement hours,
\* whatever the rule's hours, each slot of the replacement window returned
\* once; (c) the rule's hours otherwise.
C14_EffectiveWindow ==
    CapacityPathRan =>
        LET duration == RequestedService.duration_minutes
            replacing == ReplacingOverrides(BusinessWideOverrides)
        IN  /\ result.kind = "slots"
            /\ IF BusinessWideRules = {}
                   \/ ClosedOverride(BusinessWideOverrides)
               THEN result.slots = <<>>
               ELSE IF replacing # {}
               THEN LET o == special_availability[
                                 CHOOSE i \in replacing : TRUE]
                    IN  StartsOf(result.slots) =
                            GridStarts(Minutes(o.start_time),
                                       Minutes(o.end_time), duration)
               ELSE StartsOf(result.slots) =
                        RuleGrids(BusinessWideRules, duration)

----------------------------------------------------------------------------
\* Effective working-hours windows, read off the tables: none when there is
\* no active rule for the day of the week or the override of the date is
\* closed; the override's window when it supplies hours; the rules' windows
\* otherwise.  A window is <<start, end>> in minutes.

StaffRules(m) ==
    {i \in DOMAIN availability_rules :
        /\ availability_rules[i].staff_member_id = m
        /\ availability_rules[i].day_of_week = params.date % 7
        /\ availability_rules[i].is_active}

StaffOverrides(m) ==
    {i \in DOMAIN special_availability :
        /\ special_availability[i].staff_member_id = m
        /\ special_availability[i].date = params.date}

EffectiveWindows(rules, overrides) ==
    IF rules = {} \/ ClosedOverride(overrides) THEN {}
    ELSE IF ReplacingOverrides(overrides) # {}
    THEN {<<Minutes(special_availability[i].start_time),
            Minutes(special_availability[i].end_time)>> :
             i \in ReplacingOverrides(overrides)}
    ELSE {<<Minutes(availability_rules[i].start_time),
            Minutes(availability_rules[i].end_time)>> : i \in rules}

\* The canonical policy of the staff strategy: candidates of length
\* duration + bufferBefore + bufferAfter at 15-minute stride that end at or
\* before the end of the window, for each eligible staff member; a
\* candidate is dropped when it overlaps a pending or confirmed booking of
\* the same staff member widened by the booked service's buffers.

CanonicalLength ==
    RequestedService.duration_minutes
    + RequestedService.buffer_before_minutes
    + RequestedService.buffer_after_minutes

RequestedStaff ==
    {staff_members[i].id : i \in
        {j \in DOMAIN staff_members :
            /\ EligibleStaff(staff_members[j].id)
            /\ params.staffMemberId # 0
                   => staff_members[j].id = params.staffMemberId}}

CanonicalCandidates(m) ==
    {from \in UNION {{w[1] + 15 * k : k \in 0..((w[2] - w[1]) \div 15)} :
                        w \in EffectiveWindows(StaffRules(m),
                                               StaffOverrides(m))} :
        \E w \in EffectiveWindows(StaffRules(m), StaffOverrides(m)) :
            /\ w[1] <= from
            /\ (from - w[1]) % 15 = 0
            /\ from + CanonicalLength <= w[2]}

CanonicalBlocked(m, from) ==
    \E j \in LiveBusinessBookings :
        /\ bookings[j].staff_member_id = m
        /\ Overlaps(from, from + CanonicalLength,
                    Max(0, Minutes(bookings[j].start_time)
                           - BookedService(j).buffer_before_minutes),
                    Minutes(bookings[j].end_time)
                    + BookedService(j).buffer_after_minutes)

CanonicalAdmitted ==
    UNION {{<<from, m>> : from \in
               {f \in CanonicalCandidates(m) : ~CanonicalBlocked(m, f)}} :
           m \in RequestedStaff}

ImplementedAdmitted ==
    {<<Minutes(result.slots[k].start), result.slots[k].staffMemberId>> :
        k \in DOMAIN result.slots}

\* C16: the (start, staffMemberId) pairs the staff path returns (fixed
\* 15-minute grid, then the duration-and-buffer filter) are exactly the
\* pairs the canonical policy admits.
C16_PolicyEquivalence ==
    StaffOutput => ImplementedAdmitted = CanonicalAdmitted

----------------------------------------------------------------------------
\* C17: every returned slot fits inside an effective window: windowStart <=
\* start and start + slotLength <= windowEnd, with slotLength the duration
\* in the capacity path and duration + bufferBefore + bufferAfter in the
\* staff path.
C17_SlotsFitWindow ==
    /\ CapacityOutput =>
          \A k \in DOMAIN result.slots :
              \E w \in EffectiveWindows(BusinessWideRules,
                                        BusinessWideOverrides) :
                  /\ w[1] <= Minutes(result.slots[k].start)
                  /\ Minutes(result.slots[k].start)
                     + RequestedService.duration_minutes <= w[2]
    /\ StaffOutput =>
          \A k \in DOMAIN result.slots :
              \E w \in EffectiveWindows(
                           StaffRules(result.slots[k].staffMemberId),
                           StaffOverrides(result.slots[k].staffMemberId)) :
                  /\ w[1] <= Minutes(result.slots[k].start)
                  /\ Minutes(result.slots[k].start) + CanonicalLength <= w[2]

\* The capacity-path half of C17 alone.
C17_CapacitySlotsFitWindow ==
    CapacityOutput =>
        \A k \in DOMAIN result.slots :
            \E w \in EffectiveWindows(BusinessWideRules,
                                      BusinessWideOverrides) :
                /\ w[1] <= Minutes(result.slots[k].start)
                /\ Minutes(result.slots[k].start)
                   + RequestedService.duration_minutes <= w[2]

----------------------------------------------------------------------------
\* The slots of staff member m in a list, in the list's order.
SlotsOfStaff(slots, m) ==
    LET own(slot) == slot.staffMemberId = m
    IN  SelectSeq(slots, own)

\* Staff member m has a day off: no active rule for the day of the week, or
\* a closed override for the date.
Skipped(m) == StaffRules(m) = {} \/ ClosedOverride(StaffOverrides(m))

\* What staff member m contributes when processed alone: the grid of m's
\* own hours, without the candidates m's own bookings block.
OwnSlots(m) ==
    LET free(slot) == ~CandidateBlocked(slot)
        special == StaffSpecialQuery(m, params.date)
    IN  IF ClosedBySpecial(special) THEN <<>>
        ELSE SelectSeq(StaffSlots(m, StaffHoursQuery(m, params.date % 7),
                                  special),
                       free)

StaffPathRan ==
    /\ Done
    /\ failedAt = 0
    /\ StaffBased
    /\ ServiceUsable
    /\ params.date <= Today + RequestedBusiness.booking_advance_days
    /\ RequestedStaff # {}

\* C20: staff members are processed independently.  A request with
\* eligible staff always reaches the end of the staff path, whoever is
\* skipped; a skipped member contributes no slot; and the slots of each
\* member in the result are what that member contributes alone, whatever
\* the other members' hours, overrides and bookings.
C20_StaffIndependent ==
    StaffPathRan =>
        /\ result.kind = "slots"
        /\ LastRead = "staff_bookings"
        /\ \A m \in RequestedStaff :
              /\ Skipped(m) => SlotsOfStaff(result.slots, m) = <<>>
              /\ SlotsOfStaff(result.slots, m) = OwnSlots(m)

\* The first staff member processed has a day off and the result holds
\* another member's slots.
C20_Witness ==
    /\ StaffPathRan
    /\ Len(staffRows) = 2
    /\ Skipped(staffRows[1])
    /\ ~Skipped(staffRows[2])
    /\ Len(result.slots) > 0

\* The same with a closed override on a member who has working hours.
C20_WitnessClosed ==
    /\ StaffPathRan
    /\ Len(staffRows) = 2
    /\ StaffRules(staffRows[1]) # {}
    /\ ClosedOverride(StaffOverrides(staffRows[1]))
    /\ Len(result.slots) > 0

----------------------------------------------------------------------------
\* The overlap predicates called with intervals [s1, e1) and [s2, e2).

ProbeS1 == Minutes(probe.args[1])
ProbeE1 == Minutes(probe.args[2])
ProbeS2 == Minutes(probe.args[3])
ProbeE2 == Minutes(probe.args[4])

OverlapCalled == probe.op \in {"timesOverlap", "timesOverlapExact"}

\* Minutes the two intervals have in common.
CommonMinutes == Max(0, Min(ProbeE1, ProbeE2) - Max(ProbeS1, ProbeS2))

C18_Witness ==
    /\ probe.op = "timesOverlap"
    /\ CommonMinutes = 10
    /\ probe.out = TRUE

C19_OverlapSymmetric ==
    /\ probe.op = "timesOverlap" =>
          probe.out = timesOverlap(probe.args[3], probe.args[4],
                                   probe.args[1], probe.args[2])
    /\ probe.op = "timesOverlapExact" =>
          probe.out = timesOverlapExact(probe.args[3], probe.args[4],
                                        probe.args[1], probe.args[2])

\* timesOverlapExact was called with a first interval that starts and ends
\* inside the second and returned true.
C19_Witness ==
    /\ probe.op = "timesOverlapExact"
    /\ ProbeS2 < ProbeS1
    /\ ProbeE1 < ProbeE2
    /\ probe.out = TRUE

----------------------------------------------------------------------------
\* What a call with parameters p returns when it runs alone on the tables
\* and no read fails: the pipeline applied in one piece.  A staff-based
\* call has one possible result for each order of the staff rows.

SlotsResult(slots) == [kind |-> "slots", slots |-> slots, error |-> ""]

ErrorResult(message) == [kind |-> "error", slots |-> <<>>, error |-> message]

AloneStaffSlots(m, p) ==
    LET hours == StaffHoursQuery(m, getDayOfWeek(p.date))
        special == StaffSpecialQuery(m, p.date)
    IN  IF Len(hours) = 0 \/ ClosedBySpecial(special) THEN <<>>
        ELSE StaffSlots(m, hours, special)

RECURSIVE AloneMerged(_, _)
AloneMerged(rows, p) ==
    IF rows = <<>> THEN <<>>
    ELSE AloneStaffSlots(Head(rows), p) \o AloneMerged(Tail(rows), p)

AloneRestaurant(p, svc) ==
    LET hours == BusinessHoursQuery(p.businessId, getDayOfWeek(p.date))
        special == BusinessSpecialQuery(p.businessId, p.date)
    IN  IF Len(hours) = 0 \/ ClosedBySpecial(special) THEN <<>>
        ELSE filterByRestaurantCapacity(
                 RestaurantSlots(hours, special, svc), p.businessId,
                 Prop(svc, "id"), p.date, svc.capacity)

AloneStaff(p, svc) ==
    {filterByServiceDurationAndBuffer(AloneMerged(rows, p), p.businessId,
                                      p.serviceId, p.date, svc) :
        rows \in RowOrders(StaffQuery(p.businessId, p.serviceId,
                                      p.staffMemberId))}

AloneResults(p) ==
    LET businessResult == BusinessQuery(p.businessId)
        serviceResult == ServiceQuery(p.serviceId, p.businessId)
    IN  IF BusinessRejected(businessResult)
        THEN {ErrorResult("Business not found or inactive")}
        ELSE IF ServiceRejected(serviceResult)
        THEN {ErrorResult("Service not found or inactive")}
        ELSE IF TooFarInFuture(p.date, businessResult[1])
        THEN {SlotsResult(<<>>)}
        ELSE IF businessResult[1].type = "restaurant"
        THEN {SlotsResult(AloneRestaurant(p, serviceResult[1]))}
        ELSE {SlotsResult(slots) : slots \in AloneStaff(p, serviceResult[1])}

\* C15: with the tables unchanged, each of two requests whose reads are
\* interleaved in any order returns a list it can return when it runs
\* alone; nothing one request wrote reaches the other.
C15_Reentrant ==
    dbChange = "none" =>
        /\ (pc = "done" /\ failedAt = 0) => result \in AloneResults(params)
        /\ (other.pc = "done" /\ other.failedAt = 0) =>
              other.result \in AloneResults(other.params)

\* Two requests with different parameters, each suspended while the other
\* read, have both returned slots.
C15_Witness ==
    /\ BothDone
    /\ NeitherFailed
    /\ interleaved
    /\ dbChange = "none"
    /\ params # other.params
    /\ Len(result.slots) > 0
    /\ Len(other.result.slots) > 0
    /\ Len(reads) > 2
    /\ Len(other.reads) > 2

----------------------------------------------------------------------------
StaffFilterSatisfied ==
    /\ result.kind = "slots"
    /\ \A k \in DOMAIN result.slots :
          result.slots[k].staffMemberId = params.staffMemberId
    /\ ~EligibleStaff(params.staffMemberId) =>
          /\ result.slots = <<>>
          /\ reads = <<"business", "service", "staff">>

StaffPathEntered ==
    /\ Done
    /\ failedAt = 0
    /\ StaffBased
    /\ ServiceUsable
    /\ params.date <= Today + RequestedBusiness.booking_advance_days

\* C21: when a staff-based request carries a staffMemberId, every slot of
\* the result has that staffMemberId; if that staff member is inactive, of
\* another business or not mapped to the service, the result is the empty
\* list, without error, and the staff query is the last read.
C21_StaffFilter ==
    (StaffPathEntered /\ params.staffMemberIdGiven) => StaffFilterSatisfied

\* The same for a staffMemberId other than 0.
C21_NonZeroStaffFilter ==
    (StaffPathEntered /\ params.staffMemberId # 0) => StaffFilterSatisfied

----------------------------------------------------------------------------
\* A booking was inserted before the later call began; it is the last row.
BookingCreated == dbChange = "created"

CreatedBooking == bookings[Len(bookings)]

CreatedService ==
    services[CHOOSE i \in DOMAIN services :
                 services[i].id = CreatedBooking.service_id]

\* The running request is the call that began after the booking was
\* inserted: the call that had returned before is the parked one.
LaterCall == BookingCreated /\ other.pc = "done"

\* C22: a booking inserted by handleCreateBooking has status 'pending' and
\* end_time = start_time + the duration of its service, and a later
\* staff-based availability call for the same business and date returns no
\* slot of the booking's staff member whose service interval [start, start
\* + duration) overlaps [booking.start, booking.end + the booked service's
\* buffer after).
C22_CreatedBookingVisible ==
    BookingCreated =>
        /\ CreatedBooking.status = "pending"
        /\ Minutes(CreatedBooking.end_time)
           = Minutes(CreatedBooking.start_time)
             + CreatedService.duration_minutes
        /\ ( /\ LaterCall
             /\ StaffOutput
             /\ params.businessId = CreatedBooking.business_id
             /\ params.date = CreatedBooking.booking_date ) =>
              \A k \in DOMAIN result.slots :
                  result.slots[k].staffMemberId
                      = CreatedBooking.staff_member_id =>
                      ~Overlaps(Minutes(result.slots[k].start),
                                Minutes(result.slots[k].start)
                                + RequestedService.duration_minutes,
                                Minutes(CreatedBooking.start_time),
                                Minutes(CreatedBooking.end_time)
                                + CreatedService.buffer_after_minutes)

\* After a booking for one staff member was created, the later call returns
\* fewer slots than the earlier one, some of them of that staff member.
C22_Witness ==
    /\ LaterCall
    /\ StaffOutput
    /\ other.failedAt = 0
    /\ params = other.params
    /\ Len(result.slots) < Len(other.result.slots)
    /\ \E k \in DOMAIN result.slots :
          result.slots[k].staffMemberId = CreatedBooking.staff_member_id

----------------------------------------------------------------------------
\* Both listeners have run and the first one has nothing left to await.
RequestFinished ==
    /\ http # <<>>
    /\ http.stage = "second_done"
    /\ http.first \in {"none", "threw"}

\* The routes whose method and pattern match the request.
MatchingRoutes ==
    {i \in DOMAIN routes :
        /\ routes[i].method = http.method
        /\ Len(routes[i].pattern) = Len(http.path)
        /\ \A k \in DOMAIN http.path :
              routes[i].pattern[k].dynamic
              \/ routes[i].pattern[k].text = http.path[k]}

\* C23: for every request the two listeners together end the response
\* exactly once and never set a header or write after it was ended; at
\* most one route handler is called, that of the first route in table order
\* whose method and pattern match.
C23_ExactlyOneResponse ==
    http # <<>> =>
        /\ http.ends <= 1
        /\ http.afterEnd = 0
        /\ ~http.crashed
        /\ RequestFinished => http.ends = 1
        /\ Len(http.handlers) <= 1
        /\ \A k \in DOMAIN http.handlers :
              /\ MatchingRoutes # {}
              /\ http.handlers[k]
                 = routes[CHOOSE i \in MatchingRoutes :
                              \A j \in MatchingRoutes : i <= j].handler

\* The same for every request other than GET /health.
C23_ExactlyOneResponseElsewhere ==
    ~(http # <<>> /\ http.method = "GET" /\ http.path = <<"", "health">>
      /\ ~http.hasQuery)
    => C23_ExactlyOneResponse

----------------------------------------------------------------------------
\* The statement was issued on the call's client, and where.
Issued(c, statement) == \E k \in DOMAIN c.log : c.log[k] = statement
IssuedBefore(c, a, b) ==
    \E k, l \in DOMAIN c.log : k < l /\ c.log[k] = a /\ c.log[l] = b

\* The client is released once by a settled call that acquired one, and
\* never otherwise.
ReleasedOnce(c) ==
    /\ c.released <= 1
    /\ c.stage # "settled" => c.released = 0
    /\ c.stage = "settled" => c.released = (IF c.acquired THEN 1 ELSE 0)

\* BEGIN precedes the callback; COMMIT is issued only after the callback
\* completed without error, and never after an error was caught.
CommitOnlyOnSuccess(c) ==
    /\ Issued(c, "callback") => IssuedBefore(c, "BEGIN", "callback")
    /\ Issued(c, "COMMIT") => IssuedBefore(c, "callback", "COMMIT")
    /\ ~IssuedBefore(c, "ROLLBACK", "COMMIT")
    /\ c.caught \in {"BEGIN", "callback"} => ~Issued(c, "COMMIT")

\* A call that caught an error issues ROLLBACK and is rejected.
RollbackOnError(c) ==
    (c.stage = "settled" /\ c.caught # "none")
    => (Issued(c, "ROLLBACK") /\ c.outcome = "thrown")

\* C24: every call of query() or transaction() that acquired a client
\* releases it exactly once on every path; transaction() issues BEGIN
\* before the callback and COMMIT only if the callback completed without
\* error, otherwise it issues ROLLBACK and the caller is rejected with the
\* error that was caught.
C24_ReleaseOnceAndRethrow ==
    conn # <<>> =>
        \A i \in DOMAIN conn :
            /\ ReleasedOnce(conn[i])
            /\ CommitOnlyOnSuccess(conn[i])
            /\ RollbackOnError(conn[i])
            /\ (conn[i].stage = "settled" /\ conn[i].caught # "none")
               => conn[i].error = conn[i].caught

\* The same, the caller being rejected with some error when one was
\* caught: the caught one, or that of a failed ROLLBACK.
C24_ReleaseOnceAndReject ==
    conn # <<>> =>
        \A i \in DOMAIN conn :
            /\ ReleasedOnce(conn[i])
            /\ CommitOnlyOnSuccess(conn[i])
            /\ RollbackOnError(conn[i])
            /\ (conn[i].stage = "settled" /\ conn[i].caught # "none")
               => conn[i].error \in {conn[i].caught, "ROLLBACK"}

\* A transaction whose callback failed was rolled back, its ROLLBACK
\* failed too, and its client was released once.
C24_Witness ==
    /\ conn # <<>>
    /\ \E i \in DOMAIN conn :
          /\ conn[i].stage = "settled"
          /\ conn[i].caught = "callback"
          /\ conn[i].error = "ROLLBACK"
          /\ conn[i].released = 1

----------------------------------------------------------------------------
\* A time string with hour in [0, 23] and minute in [0, 59].
ValidTime(t) == t[1] \in 0..23 /\ t[2] \in 0..59

\* timeToMinutes was called on an input, not on a result of minutesToTime.
TimeParsed == probe.op = "timeToMinutes" /\ Len(probe.args) = 1

\* minutesToTime was called on an input, not on a result of timeToMinutes.
MinutesFormatted == probe.op = "minutesToTime" /\ Len(probe.args) = 1

\* C25: timeToMinutes fails with InvalidTimeFormat for every "HH:MM" whose
\* hour is outside [0, 23] or whose minute is outside [0, 59], and returns
\* hour * 60 + minute for a valid one; it never returns a minute count for
\* "24:00" or "10:75".
C25_TimeToMinutesValidates ==
    TimeParsed =>
        IF ValidTime(probe.args[1])
        THEN /\ probe.out.threw = "none"
             /\ probe.out.value = probe.args[1][1] * 60 + probe.args[1][2]
        ELSE probe.out.threw = "InvalidTimeFormat"

\* timeToMinutes returns hour * 60 + minute for every "HH:MM", in range or
\* not.
C25_TimeToMinutesOfAnyInput ==
    TimeParsed =>
        /\ probe.out.threw = "none"
        /\ probe.out.value = probe.args[1][1] * 60 + probe.args[1][2]

\* "24:00" was converted and a minute count came back.
C25_WitnessOutOfRange ==
    /\ TimeParsed
    /\ probe.args[1] = <<24, 0>>
    /\ probe.out.value = 24 * 60

\* minutesToTime(timeToMinutes(t)) was computed for an input t.
TimeRoundTrip == probe.op = "minutesToTime" /\ Len(probe.args) = 2

\* timeToMinutes(minutesToTime(m)) was computed for an input m.
MinutesRoundTrip == probe.op = "timeToMinutes" /\ Len(probe.args) = 2

\* Both round trips are the identity on a day's minutes and on valid times.
RoundTripsHold ==
    /\ (MinutesRoundTrip /\ probe.args[2] \in 0..(24 * 60 - 1))
       => probe.out.value = probe.args[2]
    /\ (TimeRoundTrip /\ ValidTime(probe.args[2]))
       => probe.out.value = probe.args[2]

\* C26: timeToMinutes(minutesToTime(m)) = m for 0 <= m < 1440 and
\* minutesToTime(timeToMinutes(t)) = t for every valid t; for a negative
\* argument minutesToTime floors at 0 and returns "00:00".
C26_InverseAndFloor ==
    /\ RoundTripsHold
    /\ (MinutesFormatted /\ probe.args[1] < 0)
       => probe.out.value = <<0, 0>>

\* The round trips alone, and what a negative argument gives: the hour is
\* rounded down and the minute field keeps the sign of the argument.
C26_InverseWithoutFloor ==
    /\ RoundTripsHold
    /\ (MinutesFormatted /\ probe.args[1] < 0)
       => /\ probe.out.value[1] < 0
          /\ probe.out.value[1] * 60 <= probe.args[1]
          /\ probe.args[1] < probe.out.value[1] * 60 + 60
          /\ probe.out.value[2] \in (0 - 59)..0
          /\ (probe.args[1] - probe.out.value[2]) % 60 = 0

\* Both round trips were computed on a valid input, and a negative argument
\* was formatted.
C26_WitnessMinutes ==
    /\ MinutesRoundTrip
    /\ probe.args[2] = 23 * 60 + 59
    /\ probe.out.value = probe.args[2]

C26_WitnessTime ==
    /\ TimeRoundTrip
    /\ probe.args[2] = <<9, 5>>
    /\ probe.out.value = <<9, 5>>

C26_WitnessNegative ==
    /\ MinutesFormatted
    /\ probe.args[1] = 0 - 5
    /\ probe.out.value = <<0 - 1, 0 - 5>>

====
